---- MODULE Spec2Model ----
(***************************************************************************)
(* Barber-shop appointment scheduling: the booking core of                 *)
(* src/services/appointment_service.py, the agent tools of                 *)
(* src/chains/agent.py that call it, and the reminder planning of          *)
(* src/services/notification_service.py.                                   *)
(*                                                                         *)
(* Time is a number of seconds since Monday 00:00:00 of the week the       *)
(* process starts in (datetime.weekday() = 0 is Monday).  A datetime is    *)
(* an integer; a formatted date or time string is a record of its parts,   *)
(* and parsing rebuilds the integer from the parts.                        *)
(***************************************************************************)
EXTENDS Integers, Sequences, FiniteSets, TLC

VARIABLES
    now,                  \* the wall clock, datetime.now()
    MOCK_DB,              \* appointment_service.MOCK_DB: appointments, customers
    SHEET,                \* the Google spreadsheet: Appointments rows, headers, Customers
    jobs,                 \* the jobs held by the APScheduler scheduler
    scheduled_reminders,  \* notification_service.scheduled_reminders
    sent,                 \* notifications handed to the SMS / Telegram transport
    last,                 \* the last tool call: its arguments and its result
    asked,                \* (phone, timestamp) pairs answered "please confirm"
    threads,              \* requests in flight on the threaded web server
    sheets_rate_limiter,  \* appointment_service.sheets_rate_limiter: calls, lock
    let_through,          \* history: when the wait_if_needed calls of late returned
    CONVERSATION_MEMORY_CACHE  \* agent.CONVERSATION_MEMORY_CACHE: handle -> memory

vars == <<now, MOCK_DB, SHEET, jobs, scheduled_reminders, sent, last, asked, threads,
          sheets_rate_limiter, let_through, CONVERSATION_MEMORY_CACHE>>

-----------------------------------------------------------------------------
(* Program constants.                                                      *)

OPENING_HOUR == 10
CLOSING_HOUR == 18
APPOINTMENT_DURATION == 30
WORKING_DAYS == {0, 1, 2, 3, 4, 5}
MAX_APPOINTMENTS == 10

-----------------------------------------------------------------------------
(* datetime arithmetic.                                                    *)

SecondsPerMinute == 60 * 1
SecondsPerHour == 60 * 60
SecondsPerDay == 24 * 60 * 60

minutes(n) == n * SecondsPerMinute
hours(n) == n * SecondsPerHour
days(n) == n * SecondsPerDay

date(dt) == dt \div SecondsPerDay
weekday(dt) == date(dt) % 7
hour(dt) == (dt % SecondsPerDay) \div SecondsPerHour
minute(dt) == (dt % SecondsPerHour) \div SecondsPerMinute
second(dt) == dt % SecondsPerMinute

datetime(d, h, m) == days(d) + hours(h) + minutes(m)
Abs(x) == IF x < 0 THEN -x ELSE x
Range(s) == {s[i] : i \in DOMAIN s}

\* dt.strftime("%Y-%m-%d %H:%M:%S"): the calendar day and the clock fields.
strftime_datetime(dt) ==
    [Ymd |-> date(dt), H |-> hour(dt), M |-> minute(dt), S |-> second(dt)]

\* datetime.strptime(s, "%Y-%m-%d %H:%M:%S") and dateutil_parse of such a string.
strptime_datetime(s) ==
    days(s.Ymd) + hours(s.H) + minutes(s.M) + s.S

\* dt.strftime("%Y-%m-%d")
strftime_date(dt) == date(dt)

\* dt.strftime("%I:%M %p"): 12-hour clock, no date, no seconds.
strftime_clock(dt) ==
    [I |-> IF hour(dt) % 12 = 0 THEN 12 ELSE hour(dt) % 12,
     M |-> minute(dt),
     p |-> IF hour(dt) < 12 THEN "AM" ELSE "PM"]

\* str.lower() on the recipient labels the model uses.
lower(s) ==
    CASE s = "Self" -> "self"
      [] s = "Brother" -> "brother"
      [] OTHER -> s

-----------------------------------------------------------------------------
(* The state the handlers read and write, passed around as one record so   *)
(* that a handler is a function from the state before to the state after.  *)

World ==
    [MOCK_DB |-> MOCK_DB, SHEET |-> SHEET, jobs |-> jobs,
     scheduled_reminders |-> scheduled_reminders, sent |-> sent]

\* An assignment that keeps the entry already stored under the id.
Put_keeping_old(d, rec) == d \cup {rec}

\* A dict keyed by `id`, kept as the set of its entries: d[rec.id] = rec.
Put(d, rec) == {x \in d : x.id # rec.id} \cup {rec}

-----------------------------------------------------------------------------
(* Store calls.  Every call starts with get_sheet_client(); `cl` is what   *)
(* that call and the spreadsheet request after it come to:                 *)
(*   "none"   no client (no credentials, or the connection failed): the    *)
(*            call works on MOCK_DB;                                       *)
(*   "client" a client, and the spreadsheet request succeeds;              *)
(*   "raise"  a client, and the spreadsheet request raises.                *)

Outcomes == {"none", "client", "raise"}

\* get_sheet_client() where credentials are configured.  `attempts` is what the
\* spreadsheet service answers to the first, second, ... attempt to open the
\* sheet: "connected", "rate_limited" (an APIError with status 429) or "error"
\* (any other exception).  Only a 429 answer is tried again, max_tries times in
\* all; any other exception returns None at once.  The result says whether a
\* client is returned and how many attempts were made.
max_tries == 5

RECURSIVE get_sheet_client_from(_, _)
get_sheet_client_from(attempts, tries) ==
    IF ~(tries < max_tries)
    THEN [client |-> FALSE, attempts_made |-> tries]
    ELSE CASE attempts[tries + 1] = "connected" ->
                [client |-> TRUE, attempts_made |-> tries + 1]
           [] attempts[tries + 1] = "rate_limited" ->
                get_sheet_client_from(attempts, tries + 1)
           [] OTHER -> [client |-> FALSE, attempts_made |-> tries + 1]

get_sheet_client(attempts) == get_sheet_client_from(attempts, 0)

\* A store call: get_sheet_client(), then one spreadsheet request inside
\* try/except when there is a client.  `request` is what the service answers to
\* that request: "ok" or "raise".  The result is the call's outcome as one of
\* Outcomes, the attempts to connect, and the requests sent.
store_call(attempts, request) ==
    LET got == get_sheet_client(attempts)
    IN  [cl |-> IF ~got.client THEN "none"
                ELSE IF request = "ok" THEN "client" ELSE "raise",
         attempts_made |-> got.attempts_made,
         requests_made |-> IF got.client THEN 1 ELSE 0]

\* get_appointments_for_date(target_date)
get_appointments_for_date(w, target_date, cl) ==
    CASE cl = "client" ->
           SelectSeq(w.SHEET.appointments,
                     LAMBDA record : date(strptime_datetime(record.datetime)) = date(target_date))
      [] cl = "raise" -> <<>>
      [] OTHER ->
           SelectSeq(w.MOCK_DB.appointments,
                     LAMBDA appt : appt.datetime.Ymd = strftime_date(target_date))

\* get_appointments_for_phone(phone_number)
get_appointments_for_phone(w, phone_number, cl) ==
    CASE cl = "client" ->
           SelectSeq(w.SHEET.appointments, LAMBDA record : record.phone = phone_number)
      [] cl = "raise" -> <<>>
      [] OTHER ->
           SelectSeq(w.MOCK_DB.appointments, LAMBDA appt : appt.phone = phone_number)

\* add_appointment_to_sheet(appointment): the state after, and the value returned.
\* With a client the header row is read first: fewer than 7 columns, or a read
\* that raises ("header_raise"), makes the worksheet be cleared and the 7
\* headers written before the row is appended.
add_appointment_to_sheet(w, appointment, cl) ==
    CASE cl = "header_raise" ->
           [w |-> [w EXCEPT !.SHEET.headers = 7,
                            !.SHEET.appointments = <<appointment>>],
            ok |-> TRUE]
      [] cl = "client" ->
           LET rows == IF w.SHEET.headers < 7 THEN <<>> ELSE w.SHEET.appointments
           IN  [w |-> [w EXCEPT !.SHEET.headers = 7,
                                !.SHEET.appointments = Append(rows, appointment)],
                ok |-> TRUE]
      [] cl = "raise" -> [w |-> w, ok |-> FALSE]
      [] OTHER ->
           [w |-> [w EXCEPT !.MOCK_DB.appointments = Append(@, appointment)],
            ok |-> TRUE]

\* The empty dict {}.
EmptyDict == [x \in {} |-> x]

\* json.dumps(value) is a text, json.loads(text) the value the text denotes.
json_dumps(value) == <<"json", value>>
json_loads(text) == text[2]

\* get_customer_info(phone_number): the customer's dict, {} when unknown.
get_customer_info(w, phone_number, cl) ==
    CASE cl = "client" ->
           IF phone_number \in DOMAIN w.SHEET.customers
           THEN [w.SHEET.customers[phone_number] EXCEPT !.preferences = json_loads(@)]
           ELSE EmptyDict
      [] cl = "raise" -> EmptyDict
      [] OTHER ->
           IF phone_number \in DOMAIN w.MOCK_DB.customers
           THEN w.MOCK_DB.customers[phone_number]
           ELSE EmptyDict

\* customer_info.get('name', '')
name_of(customer_info) ==
    IF "name" \in DOMAIN customer_info THEN customer_info.name ELSE ""

\* d[k] = v on a dict kept as a function.
SetItem(d, k, v) == [x \in DOMAIN d \cup {k} |-> IF x = k THEN v ELSE d[x]]

\* customer_info.get(key, default)
get(customer_info, key, default) ==
    IF key \in DOMAIN customer_info THEN customer_info[key] ELSE default

\* The Customers row after the update_cell calls for the fields supplied.
update_cells(row, customer_info) ==
    [row EXCEPT
        !.name = get(customer_info, "name", @),
        !.email = get(customer_info, "email", @),
        !.preferences = IF "preferences" \in DOMAIN customer_info
                        THEN json_dumps(customer_info.preferences) ELSE @,
        !.last_updated = now]

\* save_customer_info(phone_number, customer_info): the state after.
save_customer_info(w, phone_number, customer_info, cl) ==
    CASE cl = "client" ->
           IF phone_number \in DOMAIN w.SHEET.customers
           THEN [w EXCEPT !.SHEET.customers[phone_number] = update_cells(@, customer_info)]
           ELSE [w EXCEPT !.SHEET.customers =
                     SetItem(@, phone_number,
                             [phone |-> phone_number,
                              name |-> get(customer_info, "name", ""),
                              email |-> get(customer_info, "email", ""),
                              preferences |-> json_dumps(get(customer_info, "preferences", EmptyDict)),
                              last_updated |-> now])]
      [] cl = "raise" -> w
      [] OTHER ->
           [w EXCEPT !.MOCK_DB.customers =
                SetItem(@, phone_number, SetItem(customer_info, "last_updated", now))]

-----------------------------------------------------------------------------
(* Business calendar and availability.                                     *)

\* is_during_business_hours(dt)
is_during_business_hours(dt) ==
    OPENING_HOUR <= hour(dt) /\ hour(dt) < CLOSING_HOUR

\* is_valid_appointment_time with a start exactly one hour ahead refused.
is_valid_appointment_time_over_an_hour(dt) ==
    /\ weekday(dt) \in WORKING_DAYS
    /\ ~(hour(dt) < OPENING_HOUR \/ hour(dt) >= CLOSING_HOUR)
    /\ ~(dt <= now + hours(1))
    /\ minute(dt) \in {0, 30}

\* is_valid_appointment_time(dt)
is_valid_appointment_time(dt) ==
    /\ weekday(dt) \in WORKING_DAYS
    /\ ~(hour(dt) < OPENING_HOUR \/ hour(dt) >= CLOSING_HOUR)
    /\ ~(dt < now + hours(1))
    /\ minute(dt) \in {0, 30}

\* The slot grid of get_available_slots: hour in range(OPENING_HOUR, CLOSING_HOUR),
\* minute in [0, 30], in that order.
slot_grid(day) ==
    [i \in 1..(2 * (CLOSING_HOUR - OPENING_HOUR)) |->
        datetime(day, OPENING_HOUR + ((i - 1) \div 2), 30 * ((i - 1) % 2))]

\* get_available_slots with a slot taken only by an appointment that starts
\* exactly on it.
get_available_slots_same_start(w, day, cl) ==
    LET target_date == datetime(day, 0, 0)
        all_slots ==
            SelectSeq(slot_grid(day),
                      LAMBDA slot_time :
                          \/ date(target_date) > date(now)
                          \/ slot_time > now + hours(1))
        existing_appointments == get_appointments_for_date(w, target_date, cl)
        is_available(slot) ==
            \A k \in DOMAIN existing_appointments :
                slot # strptime_datetime(existing_appointments[k].datetime)
        free == SelectSeq(all_slots, is_available)
    IN  IF weekday(target_date) \notin WORKING_DAYS
        THEN <<>>
        ELSE [i \in DOMAIN free |-> strftime_clock(free[i])]

\* get_available_slots(date): the free slots of that day as "%I:%M %p" strings.
get_available_slots(w, day, cl) ==
    LET target_date == datetime(day, 0, 0)
        all_slots ==
            SelectSeq(slot_grid(day),
                      LAMBDA slot_time :
                          \/ date(target_date) > date(now)
                          \/ slot_time > now + hours(1))
        existing_appointments == get_appointments_for_date(w, target_date, cl)
        is_available(slot) ==
            \A k \in DOMAIN existing_appointments :
                ~(Abs(slot - strptime_datetime(existing_appointments[k].datetime))
                    < minutes(APPOINTMENT_DURATION))
        free == SelectSeq(all_slots, is_available)
    IN  IF weekday(target_date) \notin WORKING_DAYS
        THEN <<>>
        ELSE [i \in DOMAIN free |-> strftime_clock(free[i])]

\* is_slot_available without the look at the day's free slots.
is_slot_available_validity_only(w, dt, cl) == is_valid_appointment_time(dt)

\* is_slot_available(dt)
is_slot_available(w, dt, cl) ==
    /\ is_valid_appointment_time(dt)
    /\ strftime_clock(dt) \in Range(get_available_slots(w, strftime_date(dt), cl))


-----------------------------------------------------------------------------
(* Reminders and notifications (notification_service.py).                  *)

\* The id of a reminder job: f"reminder_{kind}_{to_number}_{int(appointment_time.timestamp())}"
job_id(kind, to_number, appointment_time) == <<kind, to_number, appointment_time>>

\* schedule_one with a reminder due at this very instant still scheduled.
schedule_one_due_now(w, kind, before, to_number, appointment_time) ==
    LET reminder_time == appointment_time - before
        id == job_id(kind, to_number, appointment_time)
    IN  IF reminder_time >= now
        THEN [w EXCEPT
                !.jobs = Put(@, [id |-> id, run_date |-> reminder_time,
                                 args |-> <<to_number, appointment_time>>]),
                !.scheduled_reminders =
                    Put(@, [id |-> id, phone |-> to_number,
                            appointment_time |-> appointment_time,
                            reminder_time |-> reminder_time,
                            type |-> kind, scheduled_at |-> now])]
        ELSE w

\* One of the two halves of schedule_reminders: the job of `kind`, fired `before`
\* the appointment, is added (replacing a job of the same id) only when its
\* fire time is later than now.
schedule_one(w, kind, before, to_number, appointment_time) ==
    LET reminder_time == appointment_time - before
        id == job_id(kind, to_number, appointment_time)
    IN  IF reminder_time > now
        THEN [w EXCEPT
                !.jobs = Put(@, [id |-> id, run_date |-> reminder_time,
                                 args |-> <<to_number, appointment_time>>]),
                !.scheduled_reminders =
                    Put(@, [id |-> id, phone |-> to_number,
                            appointment_time |-> appointment_time,
                            reminder_time |-> reminder_time,
                            type |-> kind, scheduled_at |-> now])]
        ELSE w

\* schedule_reminders(to_number, appointment_time)
schedule_reminders(w, to_number, appointment_time) ==
    schedule_one(schedule_one(w, "24h", hours(24), to_number, appointment_time),
                 "1h", hours(1), to_number, appointment_time)

\* A message handed to the transport; whether it is delivered is the transport's
\* business and changes nothing here.
notify(w, kind, to, customer_phone, appointment_time, ref) ==
    [w EXCEPT !.sent = @ \cup {[kind |-> kind, to |-> to, customer |-> customer_phone,
                                time |-> appointment_time, ref |-> ref]}]

\* send_booking_confirmation(phone_number, appointment_time, service_type, appointment_id)
send_booking_confirmation(w, phone_number, appointment_time, appointment_id) ==
    notify(w, "booking_confirmation", phone_number, phone_number,
           appointment_time, appointment_id)

\* notify_barber_of_booking(barber_phone, customer_phone, appointment_time, recipient)
notify_barber_of_booking(w, customer_phone, appointment_time, recipient) ==
    notify(w, "new_appointment", "barber", customer_phone, appointment_time, <<recipient>>)

\* notify_barber_of_cancellation(barber_phone, customer_phone, appointment_time)
notify_barber_of_cancellation(w, customer_phone, appointment_time) ==
    notify(w, "cancelled_appointment", "barber", customer_phone, appointment_time, <<>>)

\* notify_barber_of_reschedule(barber_phone, customer_phone, old_time, new_time)
notify_barber_of_reschedule(w, customer_phone, old_time, new_time) ==
    notify(w, "rescheduled_appointment", "barber", customer_phone, new_time, <<old_time>>)

\* What the environment makes of a notification call of a handler: `env` may
\* say, under the call's name (reminders, confirmation, barber), whether the
\* call goes through; a call it does not name goes through.
goes_through(env, call) == IF call \in DOMAIN env THEN env[call] ELSE TRUE

\* A notification call and the boolean it returns.  Each of these functions
\* catches what its transport or the scheduler raises and returns False; the
\* state is then as it was before the call.
returning(through, after, before) ==
    [w |-> IF through THEN after ELSE before, ok |-> through]


-----------------------------------------------------------------------------
(* book_appointment of appointment_service.py (book_appt_service in        *)
(* agent.py).  `entities` is the dict the tool builds; `env` gives the     *)
(* outcome of each store call the handler makes, in the order it makes     *)
(* them: info, read, alt, alt_next, slot_info, add.                        *)

NoId == <<>>

\* Python's None where a datetime is expected.
None == 0 - 1

Result(success, kind, dt, appointment_id) ==
    [success |-> success, kind |-> kind, datetime |-> dt, appointment_id |-> appointment_id]

\* The conflict check applied to every recipient.
skip_conflict_check_never(recipient) == FALSE

\* skip_conflict_check = recipient.lower() != 'self'
skip_conflict_check(recipient) == lower(recipient) # "self"

\* book_appointment without its past check.
in_the_past_never(appointment_dt) == FALSE

\* "Check if it's in the past": appointment_dt < get_current_datetime()
in_the_past(appointment_dt) == appointment_dt < now

\* The day after, whatever day of the week it is.
next_working_day_any(day) == day

\* The while loop of book_appointment that skips to the next working day.
RECURSIVE next_working_day(_)
next_working_day(day) ==
    IF day % 7 \in WORKING_DAYS THEN day ELSE next_working_day(day + 1)

\* available_slots[:n]
Take(s, n) == SubSeq(s, 1, IF Len(s) < n THEN Len(s) ELSE n)

\* The minute of the day book_appointment reads back from a "%I:%M %p" string:
\* the hour and minute the regex finds, 12 added for a PM hour other than 12.
slot_minutes(slot) ==
    (IF slot.p = "PM" /\ slot.I # 12 THEN slot.I + 12 ELSE slot.I) * 60 + slot.M

\* Python's order on "%I:%M %p" strings: the two-digit hour, then the minute,
\* then "AM" before "PM".
str_less(a, b) ==
    \/ a.I < b.I
    \/ a.I = b.I /\ a.M < b.M
    \/ a.I = b.I /\ a.M = b.M /\ a.p = "AM" /\ b.p = "PM"

\* "Find closest available slots": the first three of available_slots as
\* (distance in minutes, slot) pairs, sorted as tuples, and of these the slots
\* of the first two.
closest_slots(available_slots, appointment_dt) ==
    LET requested_minutes == hour(appointment_dt) * 60 + minute(appointment_dt)
        pairs == [i \in DOMAIN Take(available_slots, 3) |->
                     <<Abs(slot_minutes(available_slots[i]) - requested_minutes),
                       available_slots[i]>>]
        sorted == SortSeq(pairs, LAMBDA a, b : \/ a[1] < b[1]
                                               \/ a[1] = b[1] /\ str_less(a[2], b[2]))
    IN  [i \in DOMAIN Take(sorted, 2) |-> sorted[i][2]]

\* A rejection that offers other times: the times offered, in the order of the
\* message, and the calendar day they are on.
Offer(kind, dt, day, times) ==
    [success |-> FALSE, kind |-> kind, datetime |-> dt, appointment_id |-> NoId,
     alt_day |-> day, alternatives |-> times]

\* The rejection of a taken slot: same-day alternatives, else the next
\* working day's times, else the generic "quite busy" message.
slot_taken(w, appointment_dt, env) ==
    LET available_slots == get_available_slots(w, strftime_date(appointment_dt), env.alt)
        next_day == next_working_day(date(appointment_dt) + 1)
        next_day_slots == get_available_slots(w, next_day, env.alt_next)
    IN  IF available_slots # <<>>
        THEN Offer("slot_booked_alternatives", appointment_dt, date(appointment_dt),
                   closest_slots(available_slots, appointment_dt))
        ELSE IF next_day_slots # <<>>
        THEN Offer("slot_booked_next_day", appointment_dt, next_day,
                   Take(next_day_slots, 3))
        ELSE Result(FALSE, "slot_booked_busy", appointment_dt, NoId)

\* book_checks with the conflict check made before the confirmation check.
book_checks_conflict_first(w, phone_number, entities, env) ==
    LET w1 == IF entities.customer_name # ""
              THEN save_customer_info(w, phone_number, [name |-> entities.customer_name], env.info)
              ELSE w
        appointment_dt == strptime_datetime(entities.datetime)
    IN  IF ~is_during_business_hours(appointment_dt)
        THEN [w |-> w1, result |-> Result(FALSE, "business_hours", appointment_dt, NoId)]
        ELSE IF in_the_past(appointment_dt)
        THEN [w |-> w1, result |-> Result(FALSE, "past", appointment_dt, NoId)]
        ELSE IF ~skip_conflict_check(entities.recipient)
                /\ ~is_slot_available(w1, appointment_dt, env.read)
        THEN [w |-> w1, result |-> slot_taken(w1, appointment_dt, env)]
        ELSE IF ~entities.confirmed
        THEN [w |-> w1, result |-> Result(FALSE, "needs_confirmation", appointment_dt, NoId)]
        ELSE [w |-> w1, result |-> Result(FALSE, "proceed", appointment_dt, NoId)]

\* book_appointment up to "All checks passed": the customer upsert, the parse,
\* the business-hours, past, confirmation and conflict checks.  kind "proceed"
\* means every check passed.
book_checks(w, phone_number, entities, env) ==
    LET w1 == IF entities.customer_name # ""
              THEN save_customer_info(w, phone_number, [name |-> entities.customer_name], env.info)
              ELSE w
        appointment_dt == strptime_datetime(entities.datetime)
    IN  IF ~is_during_business_hours(appointment_dt)
        THEN [w |-> w1, result |-> Result(FALSE, "business_hours", appointment_dt, NoId)]
        ELSE IF in_the_past(appointment_dt)
        THEN [w |-> w1, result |-> Result(FALSE, "past", appointment_dt, NoId)]
        ELSE IF ~entities.confirmed
        THEN [w |-> w1, result |-> Result(FALSE, "needs_confirmation", appointment_dt, NoId)]
        ELSE IF ~skip_conflict_check(entities.recipient)
                /\ ~is_slot_available(w1, appointment_dt, env.read)
        THEN [w |-> w1, result |-> slot_taken(w1, appointment_dt, env)]
        ELSE [w |-> w1, result |-> Result(FALSE, "proceed", appointment_dt, NoId)]

\* book_appointment_slot(phone_number, dt, service_type, recipient): the state
\* after, the id, and whether the insert succeeded (it raises when it did not).
book_appointment_slot(w, phone_number, dt, service_type, recipient, env) ==
    LET customer_info == get_customer_info(w, phone_number, env.slot_info)
        appointment_id == <<"APPT", now>>
        new_appointment ==
            [id |-> appointment_id,
             phone |-> phone_number,
             datetime |-> strftime_datetime(dt),
             service_type |-> service_type,
             recipient |-> recipient,
             customer_name |-> name_of(customer_info),
             created_at |-> strftime_datetime(now)]
        added == add_appointment_to_sheet(w, new_appointment, env.add)
    IN  [w |-> added.w, appointment_id |-> appointment_id, ok |-> added.ok]

\* book_commit with the reminders and notifications produced whether or not
\* the insert succeeded.
book_commit_reminders_regardless(w, phone_number, entities, env) ==
    LET appointment_dt == strptime_datetime(entities.datetime)
        slot == book_appointment_slot(w, phone_number, appointment_dt,
                                      entities.service_type, entities.recipient, env)
        w2 == schedule_reminders(slot.w, phone_number, appointment_dt)
        w3 == send_booking_confirmation(w2, phone_number, appointment_dt, slot.appointment_id)
        w4 == notify_barber_of_booking(w3, phone_number, appointment_dt, entities.recipient)
    IN  IF slot.ok
        THEN [w |-> w4, result |-> Result(TRUE, "booked", appointment_dt, slot.appointment_id)]
        ELSE [w |-> w4, result |-> Result(FALSE, "error", appointment_dt, NoId)]

\* book_commit with the booking reported as failed when the customer's
\* confirmation could not be sent.
book_commit_needing_confirmation(w, phone_number, entities, env) ==
    LET appointment_dt == strptime_datetime(entities.datetime)
        slot == book_appointment_slot(w, phone_number, appointment_dt,
                                      entities.service_type, entities.recipient, env)
        reminded == returning(goes_through(env, "reminders"),
                              schedule_reminders(slot.w, phone_number, appointment_dt),
                              slot.w)
        confirmation == returning(goes_through(env, "confirmation"),
                                  send_booking_confirmation(reminded.w, phone_number,
                                                            appointment_dt,
                                                            slot.appointment_id),
                                  reminded.w)
        notified == returning(goes_through(env, "barber"),
                              notify_barber_of_booking(confirmation.w, phone_number,
                                                       appointment_dt, entities.recipient),
                              confirmation.w)
    IN  IF slot.ok /\ confirmation.ok
        THEN [w |-> notified.w,
              result |-> Result(TRUE, "booked", appointment_dt, slot.appointment_id)]
        ELSE [w |-> slot.w, result |-> Result(FALSE, "error", appointment_dt, NoId)]

\* book_appointment from "All checks passed": insert, then reminders, the
\* customer's confirmation and the barber's notification.  A failed insert
\* raises, and the handler's except clause returns the apology.
book_commit(w, phone_number, entities, env) ==
    LET appointment_dt == strptime_datetime(entities.datetime)
        slot == book_appointment_slot(w, phone_number, appointment_dt,
                                      entities.service_type, entities.recipient, env)
        reminded == returning(goes_through(env, "reminders"),
                              schedule_reminders(slot.w, phone_number, appointment_dt),
                              slot.w)
        confirmation == returning(goes_through(env, "confirmation"),
                                  send_booking_confirmation(reminded.w, phone_number,
                                                            appointment_dt,
                                                            slot.appointment_id),
                                  reminded.w)
        notified == returning(goes_through(env, "barber"),
                              notify_barber_of_booking(confirmation.w, phone_number,
                                                       appointment_dt, entities.recipient),
                              confirmation.w)
    IN  IF slot.ok
        THEN [w |-> notified.w,
              result |-> Result(TRUE, "booked", appointment_dt, slot.appointment_id)]
        ELSE [w |-> slot.w, result |-> Result(FALSE, "error", appointment_dt, NoId)]

\* book_appointment(phone_number, entities) of appointment_service.py.
book_appt_service(w, phone_number, entities, env) ==
    LET checked == book_checks(w, phone_number, entities, env)
    IN  IF checked.result.kind = "proceed"
        THEN book_commit(checked.w, phone_number, entities, env)
        ELSE checked


\* remove_appointment_from_sheet(appointment_id): the first row with that id is
\* deleted; False when no row has it or the request raises.
RemoveAt(rows, i) == SubSeq(rows, 1, i - 1) \o SubSeq(rows, i + 1, Len(rows))

FirstWithId(rows, appointment_id) ==
    LET hits == {i \in DOMAIN rows : rows[i].id = appointment_id}
    IN  IF hits = {} THEN 0 ELSE CHOOSE i \in hits : \A j \in hits : i <= j

remove_appointment_from_sheet(w, appointment_id, cl) ==
    LET rows == IF cl = "client" THEN w.SHEET.appointments ELSE w.MOCK_DB.appointments
        i == FirstWithId(rows, appointment_id)
    IN  IF cl = "raise" \/ i = 0
        THEN [w |-> w, ok |-> FALSE]
        ELSE IF cl = "client"
        THEN [w |-> [w EXCEPT !.SHEET.appointments = RemoveAt(rows, i)], ok |-> TRUE]
        ELSE [w |-> [w EXCEPT !.MOCK_DB.appointments = RemoveAt(rows, i)], ok |-> TRUE]

\* update_appointment_in_sheet(appointment_id, {'datetime': ...}): the datetime of
\* the first row with that id is overwritten.
update_appointment_in_sheet(w, appointment_id, new_datetime, cl) ==
    LET rows == IF cl = "client" THEN w.SHEET.appointments ELSE w.MOCK_DB.appointments
        i == FirstWithId(rows, appointment_id)
        updated == [rows EXCEPT ![i] = [@ EXCEPT !.datetime = new_datetime]]
    IN  IF cl = "raise" \/ i = 0
        THEN [w |-> w, ok |-> FALSE]
        ELSE IF cl = "client"
        THEN [w |-> [w EXCEPT !.SHEET.appointments = updated], ok |-> TRUE]
        ELSE [w |-> [w EXCEPT !.MOCK_DB.appointments = updated], ok |-> TRUE]

\* find_appointment(phone, appointment_id): <<>> for None, else <<appt>>.  With
\* an id, the customer's first appointment of that id; without, the earliest of
\* the customer's appointments that start after now (list.sort is stable: of
\* equal starts the one stored first).
find_appointment(w, phone, appointment_id, cl) ==
    LET appointments == get_appointments_for_phone(w, phone, cl)
        i == FirstWithId(appointments, appointment_id)
        upcoming == SelectSeq(appointments,
                              LAMBDA appt : strptime_datetime(appt.datetime) > now)
        first == CHOOSE k \in DOMAIN upcoming :
                    \A j \in DOMAIN upcoming :
                        \/ strptime_datetime(upcoming[k].datetime)
                              < strptime_datetime(upcoming[j].datetime)
                        \/ /\ strptime_datetime(upcoming[k].datetime)
                                = strptime_datetime(upcoming[j].datetime)
                           /\ k <= j
    IN  IF appointments = <<>> THEN <<>>
        ELSE IF appointment_id # NoId
        THEN (IF i = 0 THEN <<>> ELSE <<appointments[i]>>)
        ELSE IF upcoming = <<>> THEN <<>>
        ELSE <<upcoming[first]>>

\* cancel_appointment(phone, entities) of appointment_service.py.  `env` gives
\* the outcome of its store calls: find, write.
cancel_appt_service(w, phone, appointment_id, env) ==
    LET appointment == find_appointment(w, phone, appointment_id, env.find)
        removed == remove_appointment_from_sheet(w, appointment[1].id, env.write)
        appt_datetime == strptime_datetime(appointment[1].datetime)
    IN  IF appointment = <<>>
        THEN [w |-> w, result |-> Result(FALSE, "not_found", None, NoId)]
        ELSE IF removed.ok
        THEN [w |-> returning(goes_through(env, "barber"),
                              notify_barber_of_cancellation(removed.w, phone, appt_datetime),
                              removed.w).w,
              result |-> Result(TRUE, "cancelled", appt_datetime, appointment[1].id)]
        ELSE [w |-> removed.w,
              result |-> Result(FALSE, "remove_error", appt_datetime, appointment[1].id)]

\* dateutil_parse(date_str, fuzzy=True) on a date expression: the calendar day,
\* or None where the parser raises.  An ISO date parses to itself, a weekday
\* name (the word "next" is skipped) to that weekday on or after today; "today",
\* "tomorrow" and an empty text hold no date and make the parser raise.
dateutil_parse_date(date_expr) ==
    CASE date_expr.kind = "iso" -> date_expr.day
      [] date_expr.kind = "next" /\ date_expr.weekday \in 0..6 ->
           date(now) + ((date_expr.weekday - weekday(now)) % 7)
      [] OTHER -> None

\* parse_date_time(date_str, time_str): the datetime, or None.
parse_date_time(date_expr, time_expr) ==
    LET base_date == IF date_expr.kind = "tomorrow" THEN date(now) + 1
                     ELSE dateutil_parse_date(date_expr)
        h == IF time_expr.ampm = "pm" /\ time_expr.hour < 12 THEN time_expr.hour + 12
             ELSE IF time_expr.ampm = "am" /\ time_expr.hour = 12 THEN 0
             ELSE time_expr.hour
        m == IF time_expr.colon THEN time_expr.minute ELSE 0
    IN  IF base_date = None THEN None
        ELSE IF "garbage" \in DOMAIN time_expr THEN None
        ELSE IF h \notin 0..23 \/ m \notin 0..59 THEN None
        ELSE datetime(base_date, h, m)

\* get_available_slots(date) called with the text the customer gave rather than
\* a "YYYY-MM-DD" string: a text dateutil cannot parse gives [].
get_available_slots_text(w, date_expr, cl) ==
    IF dateutil_parse_date(date_expr) = None
    THEN <<>>
    ELSE get_available_slots(w, dateutil_parse_date(date_expr), cl)

\* reschedule_appointment(phone, entities) of appointment_service.py.  `env`
\* gives the outcome of its store calls: find, read, write.
reschedule_appt_service(w, phone, date_expr, time_expr, appointment_id, env) ==
    LET appointment == find_appointment(w, phone, appointment_id, env.find)
        new_datetime == parse_date_time(date_expr, time_expr)
        available_slots == get_available_slots_text(w, date_expr, env.read)
        old_datetime == strptime_datetime(appointment[1].datetime)
        updated == update_appointment_in_sheet(w, appointment[1].id,
                                               strftime_datetime(new_datetime), env.write)
        w2 == returning(goes_through(env, "reminders"),
                        schedule_reminders(updated.w, phone, new_datetime),
                        updated.w).w
        w3 == returning(goes_through(env, "barber"),
                        notify_barber_of_reschedule(w2, phone, old_datetime, new_datetime),
                        w2).w
        rejected(kind) == [w |-> w, result |-> Result(FALSE, kind, new_datetime, NoId)]
    IN  IF date_expr.kind = "empty" \/ "empty" \in DOMAIN time_expr
        THEN [w |-> w, result |-> Result(FALSE, "missing", None, NoId)]
        ELSE IF appointment = <<>>
        THEN [w |-> w, result |-> Result(FALSE, "not_found", None, NoId)]
        ELSE IF new_datetime = None THEN rejected("unparseable")
        ELSE IF ~is_valid_appointment_time(new_datetime) THEN rejected("invalid_time")
        ELSE IF strftime_clock(new_datetime) \notin Range(available_slots)
        THEN rejected("slot_unavailable")
        ELSE IF updated.ok
        THEN [w |-> w3,
              result |-> Result(TRUE, "rescheduled", new_datetime, appointment[1].id)]
        ELSE [w |-> updated.w,
              result |-> Result(FALSE, "update_error", new_datetime, appointment[1].id)]

\* get_upcoming_appointments_raw(phone)
get_upcoming_appointments_raw(w, phone, cl) == get_appointments_for_phone(w, phone, cl)

\* The count_user_appointments tool of agent.py: which of its three answers it
\* gives, and the count.
count_user_appointments(w, phone_number, cl) ==
    LET appointments == get_upcoming_appointments_raw(w, phone_number, cl)
        count == Len(appointments)
    IN  IF appointments = <<>>
        THEN [kind |-> "no_upcoming", count |-> 0]
        ELSE IF count >= MAX_APPOINTMENTS
        THEN [kind |-> "limit_reached", count |-> count]
        ELSE [kind |-> "summary", count |-> count]

-----------------------------------------------------------------------------
(* The calendar.  Day 0 of the model's clock is Monday 2026-01-05.         *)

EpochYear == 2025 + 1
\* The day number of January 1 of the epoch year: a Thursday.
EpochNewYear == 0 - 4

is_leap(y) == y % 4 = 0 /\ (y % 100 # 0 \/ y % 400 = 0)

days_in_month(y, m) ==
    IF m = 2 THEN (IF is_leap(y) THEN 29 ELSE 28)
    ELSE IF m \in {4, 6, 9, 11} THEN 30 ELSE 31

days_in_year(y) == IF is_leap(y) THEN 366 ELSE 365

\* The leap years before year y, and the days from January 1 of the epoch
\* year to January 1 of year y.
leap_years_before(y) == ((y - 1) \div 4) - ((y - 1) \div 100) + ((y - 1) \div 400)
days_before_year(y) ==
    365 * (y - EpochYear) + leap_years_before(y) - leap_years_before(EpochYear)

RECURSIVE days_before_month(_, _)
days_before_month(y, m) ==
    IF m = 1 THEN 0 ELSE days_before_month(y, m - 1) + days_in_month(y, m - 1)

\* datetime(year, month, day): midnight of that date, or None where the
\* constructor raises ValueError.
datetime_ymd(y, m, d) ==
    IF y \in 1..9999 /\ m \in 1..12 /\ d >= 1 /\ d <= days_in_month(y, m)
    THEN days(EpochNewYear + days_before_year(y) + days_before_month(y, m) + d - 1)
    ELSE None

\* The years the model's dates fall in.
Years == (EpochYear - 2)..(EpochYear + 6)

\* dt.year
year(dt) ==
    CHOOSE y \in Years :
        /\ EpochNewYear + days_before_year(y) <= date(dt)
        /\ date(dt) < EpochNewYear + days_before_year(y + 1)

-----------------------------------------------------------------------------
(* Texts.  A str is the sequence of its characters, so that lower(), split *)
(* (), startswith(), `in`, isdigit() and int() do on it what they do in    *)
(* Python.                                                                 *)

DigitChars == <<"0", "1", "2", "3", "4", "5", "6", "7", "8", "9">>
UpperChars == <<"A", "B", "C", "D", "E", "F", "G", "H", "I", "J", "K", "L", "M", "N", "O", "P", "Q", "R", "S", "T", "U", "V", "W", "X", "Y", "Z">>
LowerChars == <<"a", "b", "c", "d", "e", "f", "g", "h", "i", "j", "k", "l", "m", "n", "o", "p", "q", "r", "s", "t", "u", "v", "w", "x", "y", "z">>

is_digit_char(c) == \E i \in DOMAIN DigitChars : DigitChars[i] = c
digit_value(c) == (CHOOSE i \in DOMAIN DigitChars : DigitChars[i] = c) - 1

\* s.lower()
text_lower(s) ==
    [i \in DOMAIN s |->
        IF \E k \in DOMAIN UpperChars : UpperChars[k] = s[i]
        THEN LowerChars[CHOOSE k \in DOMAIN UpperChars : UpperChars[k] = s[i]]
        ELSE s[i]]

\* sub in s
contains(s, sub) ==
    \E i \in 0..(Len(s) - Len(sub)) : SubSeq(s, i + 1, i + Len(sub)) = sub

\* s.startswith(prefix)
startswith(s, prefix) ==
    Len(s) >= Len(prefix) /\ SubSeq(s, 1, Len(prefix)) = prefix

\* s.split(c) for a one-character separator: empty pieces are kept.
RECURSIVE split_char(_, _)
split_char(s, c) ==
    IF \A i \in DOMAIN s : s[i] # c
    THEN <<s>>
    ELSE LET i == CHOOSE k \in DOMAIN s : s[k] = c /\ \A j \in 1..(k - 1) : s[j] # c
         IN  <<SubSeq(s, 1, i - 1)>> \o split_char(SubSeq(s, i + 1, Len(s)), c)

nonempty(piece) == piece # <<>>

\* s.split(): the words between runs of blanks.
split_words(s) == SelectSeq(split_char(s, " "), nonempty)

\* s.isdigit()
isdigit(s) == s # <<>> /\ \A i \in DOMAIN s : is_digit_char(s[i])

RECURSIVE digits_value(_)
digits_value(s) ==
    IF s = <<>> THEN 0
    ELSE 10 * digits_value(SubSeq(s, 1, Len(s) - 1)) + digit_value(s[Len(s)])

\* s.strip() of blanks.
RECURSIVE strip(_)
strip(s) ==
    IF s # <<>> /\ s[1] = " " THEN strip(Tail(s))
    ELSE IF s # <<>> /\ s[Len(s)] = " " THEN strip(SubSeq(s, 1, Len(s) - 1))
    ELSE s

\* int(s), or None where it raises ValueError.
int(s) == IF isdigit(strip(s)) THEN digits_value(strip(s)) ELSE None

\* str(n) for n >= 0.
RECURSIVE str(_)
str(n) ==
    IF n < 10 THEN <<DigitChars[n + 1]>>
    ELSE str(n \div 10) \o <<DigitChars[(n % 10) + 1]>>

\* ''.join(c for c in s if c.isdigit())
only_digits(s) == SelectSeq(s, is_digit_char)

\* re.search(r'(\d+)', s).group(1): the first run of digits, <<>> for no match.
first_digits(s) ==
    IF \A i \in DOMAIN s : ~is_digit_char(s[i])
    THEN <<>>
    ELSE LET a == CHOOSE k \in DOMAIN s :
                      is_digit_char(s[k]) /\ \A j \in 1..(k - 1) : ~is_digit_char(s[j])
             b == CHOOSE k \in a..Len(s) :
                      /\ \A j \in a..k : is_digit_char(s[j])
                      /\ (k = Len(s) \/ ~is_digit_char(s[k + 1]))
         IN  SubSeq(s, a, b)

\* The digits s starts with.
leading_digits(s) ==
    IF s = <<>> \/ ~is_digit_char(s[1]) THEN <<>>
    ELSE first_digits(s)

\* s[n:]
drop(s, n) == SubSeq(s, n + 1, Len(s))

\* s.lstrip() of blanks.
RECURSIVE lstrip(_)
lstrip(s) == IF s # <<>> /\ s[1] = " " THEN lstrip(Tail(s)) ELSE s

\* s.replace(old, ""), left to right.
RECURSIVE without(_, _)
without(s, old) ==
    IF ~contains(s, old) THEN s
    ELSE LET i == CHOOSE k \in 1..Len(s) :
                      /\ startswith(drop(s, k - 1), old)
                      /\ \A j \in 1..(k - 1) : ~startswith(drop(s, j - 1), old)
         IN  SubSeq(s, 1, i - 1) \o without(drop(s, i - 1 + Len(old)), old)

\* s.split(sep) for a separator of several characters.
RECURSIVE split_sep(_, _)
split_sep(s, sep) ==
    IF ~contains(s, sep) THEN <<s>>
    ELSE LET i == CHOOSE k \in 1..Len(s) :
                      /\ startswith(drop(s, k - 1), sep)
                      /\ \A j \in 1..(k - 1) : ~startswith(drop(s, j - 1), sep)
         IN  <<SubSeq(s, 1, i - 1)>> \o split_sep(drop(s, i - 1 + Len(sep)), sep)

\* " ".join(words)
RECURSIVE join_words(_)
join_words(words) ==
    IF words = <<>> THEN <<>>
    ELSE IF Len(words) = 1 THEN words[1]
    ELSE words[1] \o <<" ">> \o join_words(Tail(words))

\* s from its first digit on, <<>> where it has none.
from_first_digit(s) ==
    IF \A i \in DOMAIN s : ~is_digit_char(s[i]) THEN <<>>
    ELSE drop(s, (CHOOSE k \in DOMAIN s :
                     is_digit_char(s[k]) /\ \A j \in 1..(k - 1) : ~is_digit_char(s[j])) - 1)

\* What follows the hour in r"(\d+)(?::(\d+))?\s*(am|pm)?": the minute digits
\* (<<>> for none) and the am/pm (<<>> for none).
NoMatch == [found |-> FALSE]

has_minute(after_hour) ==
    Len(after_hour) >= 2 /\ after_hour[1] = ":" /\ is_digit_char(after_hour[2])

am_pm_at(after_clock) ==
    IF startswith(lstrip(after_clock), <<"a", "m">>) THEN <<"a", "m">>
    ELSE IF startswith(lstrip(after_clock), <<"p", "m">>) THEN <<"p", "m">>
    ELSE <<>>

match_after_hour(hour_digits, after_hour) ==
    IF has_minute(after_hour)
    THEN [found |-> TRUE, hour |-> digits_value(hour_digits),
          minute |-> digits_value(leading_digits(Tail(after_hour))),
          am_pm |-> am_pm_at(drop(after_hour, 1 + Len(leading_digits(Tail(after_hour)))))]
    ELSE [found |-> TRUE, hour |-> digits_value(hour_digits), minute |-> 0,
          am_pm |-> am_pm_at(after_hour)]

match_from(digits_on) ==
    match_after_hour(leading_digits(digits_on), drop(digits_on, Len(leading_digits(digits_on))))

\* re.search(r"(\d+)(?::(\d+))?\s*(am|pm)?", s): hour, minute (0 for no group)
\* and am_pm of the first match, NoMatch for none.
time_match(s) ==
    IF from_first_digit(s) = <<>> THEN NoMatch ELSE match_from(from_first_digit(s))

\* re.search(r"(\d+)\s*(am|pm)?", s): the same without the minute group.
hour_match(s) ==
    IF from_first_digit(s) = <<>> THEN NoMatch
    ELSE [found |-> TRUE, hour |-> digits_value(leading_digits(from_first_digit(s))),
          minute |-> 0,
          am_pm |-> am_pm_at(drop(from_first_digit(s), Len(leading_digits(from_first_digit(s)))))]

day_names ==
    <<<<"m", "o", "n", "d", "a", "y">>,
      <<"t", "u", "e", "s", "d", "a", "y">>,
      <<"w", "e", "d", "n", "e", "s", "d", "a", "y">>,
      <<"t", "h", "u", "r", "s", "d", "a", "y">>,
      <<"f", "r", "i", "d", "a", "y">>,
      <<"s", "a", "t", "u", "r", "d", "a", "y">>,
      <<"s", "u", "n", "d", "a", "y">>>>

month_names ==
    <<<<"j", "a", "n", "u", "a", "r", "y">>,
      <<"f", "e", "b", "r", "u", "a", "r", "y">>,
      <<"m", "a", "r", "c", "h">>,
      <<"a", "p", "r", "i", "l">>,
      <<"m", "a", "y">>,
      <<"j", "u", "n", "e">>,
      <<"j", "u", "l", "y">>,
      <<"a", "u", "g", "u", "s", "t">>,
      <<"s", "e", "p", "t", "e", "m", "b", "e", "r">>,
      <<"o", "c", "t", "o", "b", "e", "r">>,
      <<"n", "o", "v", "e", "m", "b", "e", "r">>,
      <<"d", "e", "c", "e", "m", "b", "e", "r">>>>

Text_tomorrow == <<"t", "o", "m", "o", "r", "r", "o", "w">>
Text_today == <<"t", "o", "d", "a", "y">>
Text_next_ == <<"n", "e", "x", "t", " ">>
Text_in == <<"i", "n">>
Text_days == <<"d", "a", "y", "s">>
Text_202 == <<"2", "0", "2">>

-----------------------------------------------------------------------------
(* The calculate_date tool of agent.py.                                    *)

\* The loop over the words of "in X days": the number after the first "in"
\* that is followed by digits, or None.
in_days(words) ==
    IF \E i \in 1..(Len(words) - 1) : words[i] = Text_in /\ isdigit(words[i + 1])
    THEN LET i == CHOOSE k \in 1..(Len(words) - 1) :
                      /\ words[k] = Text_in /\ isdigit(words[k + 1])
                      /\ \A j \in 1..(k - 1) : ~(words[j] = Text_in /\ isdigit(words[j + 1]))
         IN  int(words[i + 1])
    ELSE None

\* The index i of the first day name found in the text, 0 .. 6, or None.
first_day_name(e) ==
    IF \E i \in 1..7 : contains(e, day_names[i])
    THEN (CHOOSE i \in 1..7 :
              contains(e, day_names[i]) /\ \A j \in 1..(i - 1) : ~contains(e, day_names[j])) - 1
    ELSE None

\* next_weekday without the step to next week when today is the weekday.
next_weekday_or_today(e) ==
    LET i == first_day_name(e)
        days_until == (i - weekday(now)) % 7
    IN  IF i = None THEN None
        ELSE now + days(days_until)

\* The "next <weekday>" rule, shared word for word by calculate_date,
\* book_appointment and check_availability: the datetime, or None.
next_weekday(e) ==
    LET i == first_day_name(e)
        days_until == (i - weekday(now)) % 7
    IN  IF i = None THEN None
        ELSE now + days(IF days_until = 0 THEN 7 ELSE days_until)

\* The "Month + Day" rule: the datetime, or None.
month_and_day(e) ==
    LET month_index == CHOOSE m \in 1..12 :
                           contains(e, month_names[m])
                           /\ \A j \in 1..(m - 1) : ~contains(e, month_names[j])
        day == int(first_digits(e))
        this_year == datetime_ymd(year(now), month_index, day)
        next_year == datetime_ymd(year(now) + 1, month_index, day)
    IN  IF ~\E m \in 1..12 : contains(e, month_names[m]) THEN None
        ELSE IF first_digits(e) = <<>> THEN None
        ELSE IF this_year = None THEN None
        ELSE IF this_year < now /\ next_year # None THEN next_year
        ELSE this_year

\* The "<weekday> in X days" rule inside the else branch: the datetime, or None.
weekday_in_days(e) ==
    LET day_index == first_day_name(e)
        n == in_days(split_words(e))
        target_date == now + days(n)
        days_to_adjust == (day_index - weekday(target_date)) % 7
    IN  IF day_index # None /\ contains(e, Text_in) /\ contains(e, Text_days) /\ n # None
        THEN target_date + days(days_to_adjust)
        ELSE None

\* calculated_date before the fallback: the datetime, or None.
calculate_date_rules(e) ==
    IF e = Text_tomorrow THEN now + days(1)
    ELSE IF e = Text_today THEN now
    ELSE IF contains(e, Text_in) /\ contains(e, Text_days)
    THEN (IF in_days(split_words(e)) = None THEN None
          ELSE now + days(in_days(split_words(e))))
    ELSE IF startswith(e, Text_next_) THEN next_weekday(e)
    ELSE IF month_and_day(e) # None THEN month_and_day(e)
    ELSE weekday_in_days(e)

\* calculate_date(date_expression): the date as "YYYY-MM-DD".
calculate_date(date_expression) ==
    LET calculated_date == calculate_date_rules(text_lower(date_expression))
    IN  strftime_date(IF calculated_date = None THEN now + days(1) ELSE calculated_date)

-----------------------------------------------------------------------------
(* The book_appointment tool of agent.py.  A date expression is            *)
(*   [kind |-> "text", text |-> s]     the text s, character by character, *)
(* or, for short,                                                          *)
(*   [kind |-> "today"], [kind |-> "tomorrow"],                            *)
(*   [kind |-> "next", weekday |-> i]  "next <day_names[i]>"; i = 7 when   *)
(*                                      no weekday name follows "next ",   *)
(*   [kind |-> "iso", day |-> d]       "YYYY-MM-DD" of calendar day d, a   *)
(*                                      day of the current year,           *)
(*   [kind |-> "other"]                any other text.                     *)
(* A time expression is [hour, minute, colon, ampm]: the digits before and *)
(* after the colon, whether there is a colon, and the am/pm marker ("" for *)
(* none); [garbage |-> TRUE] is a text int() fails on.                     *)


\* The month and the day of the month of a calendar day.
month(dt) ==
    LET y == year(dt)
        day_of_year == date(dt) - (EpochNewYear + days_before_year(y))
    IN  CHOOSE m \in 1..12 :
            /\ days_before_month(y, m) <= day_of_year
            /\ day_of_year < days_before_month(y, m) + days_in_month(y, m)

day_of_month(dt) ==
    LET y == year(dt)
    IN  date(dt) - (EpochNewYear + days_before_year(y) + days_before_month(y, month(dt))) + 1

\* The text of a date string "YYYY-MM-DD" (the model keeps such a string as
\* the day's number): four digits, two digits, two digits.
two_digits(n) == IF n < 10 THEN <<"0">> \o str(n) ELSE str(n)
ymd_text(ymd) ==
    LET dt == days(ymd)
    IN  str(year(dt)) \o <<"-">> \o two_digits(month(dt)) \o <<"-">>
            \o two_digits(day_of_month(dt))

\* "SAFETY CHECK: Prevent booking with outdated years": the date text the tool
\* goes on with; `raised` where int() raises, outside any try.
safety_check(date_text) ==
    LET parts == split_char(date_text, "-")
        month_number == int(parts[2])
        day_number == int(parts[3])
        date_expr == month_names[month_number] \o <<" ">> \o str(day_number)
        outdated == /\ startswith(date_text, Text_202)
                    /\ contains(date_text, <<"-">>)
                    /\ isdigit(parts[1])
                    /\ digits_value(parts[1]) < year(now)
                    /\ Len(parts) = 3
    IN  IF outdated
        THEN IF month_number = None \/ day_number = None
             THEN [raised |-> TRUE, date |-> date_text]
             ELSE IF month_number \in 1..12
             THEN [raised |-> FALSE, date |-> ymd_text(calculate_date(date_expr))]
             ELSE [raised |-> FALSE, date |-> date_text]
        ELSE [raised |-> FALSE, date |-> date_text]

\* "Try to parse as ISO format": year, month, day = map(int, parts) and
\* datetime(year, month, day), or None where one of them raises.
parse_iso_parts(date_text) ==
    LET parts == split_char(date_text, "-")
    IN  IF Len(parts) = 3 /\ \A i \in 1..3 : int(parts[i]) # None
        THEN datetime_ymd(int(parts[1]), int(parts[2]), int(parts[3]))
        ELSE None

\* "Direct handling of special date formats" of book_appointment on a text.
tool_parse_text(date_text) ==
    LET e == text_lower(date_text)
    IN  IF e = Text_tomorrow THEN now + days(1)
        ELSE IF e = Text_today THEN now
        ELSE IF startswith(e, Text_next_) THEN next_weekday(e)
        ELSE IF contains(date_text, <<"-">>) THEN parse_iso_parts(date_text)
        ELSE None

\* The same of check_availability, which also reads "april 26".
availability_parse_text(date_text) ==
    LET e == text_lower(date_text)
        pieces == split_char(date_text, " ")
        month_name_part == text_lower(pieces[1])
        day_part == only_digits(pieces[2])
        found == \E m \in 1..12 : startswith(month_names[m], month_name_part)
        month_num == CHOOSE m \in 1..12 :
                         /\ startswith(month_names[m], month_name_part)
                         /\ \A j \in 1..(m - 1) : ~startswith(month_names[j], month_name_part)
    IN  IF e = Text_tomorrow THEN now + days(1)
        ELSE IF e = Text_today THEN now
        ELSE IF startswith(e, Text_next_) THEN next_weekday(e)
        ELSE IF contains(date_text, <<"-">>) THEN parse_iso_parts(date_text)
        ELSE IF contains(date_text, <<" ">>) /\ found /\ int(day_part) # None
        THEN datetime_ymd(year(now), month_num, int(day_part))
        ELSE None

\* check_availability(date_str) of appointment_service.py on the "YYYY-MM-DD"
\* string the tool passes: the date answered for, its free slots by part of
\* the day, and, where it has none, the next three days (Sundays skipped)
\* that have some.
check_availability(w, ymd, cl) ==
    LET target_date == IF ymd < date(now) THEN date(now) + 1 ELSE ymd
        available_slots == get_available_slots(w, target_date, cl)
        hour_of(slot) == (slot.I % 12) + (IF slot.p = "PM" THEN 12 ELSE 0)
        part(lo, hi) ==
            SelectSeq(available_slots, LAMBDA slot : lo <= hour_of(slot) /\ hour_of(slot) < hi)
        nearby_dates ==
            SelectSeq(<<target_date + 1, target_date + 2, target_date + 3>>,
                      LAMBDA d : d % 7 # 6 /\ get_available_slots(w, d, cl) # <<>>)
    IN  IF available_slots # <<>>
        THEN [kind |-> "slots", date |-> target_date, morning |-> part(0, 12),
              afternoon |-> part(12, 17), evening |-> part(17, 24), nearby |-> <<>>]
        ELSE [kind |-> IF nearby_dates # <<>> THEN "none_but_nearby" ELSE "none",
              date |-> target_date, morning |-> <<>>, afternoon |-> <<>>,
              evening |-> <<>>, nearby |-> nearby_dates]

\* The check_availability tool of agent.py.
check_availability_tool(w, date_text, cl) ==
    LET parsed == availability_parse_text(date_text)
        appointment_date == IF parsed = None THEN now + days(1) ELSE parsed
    IN  check_availability(w, strftime_date(appointment_date), cl)

\* "Direct handling of special date formats": the datetime, or None.
tool_parse_date(date_expr) ==
    CASE date_expr.kind = "text" -> tool_parse_text(date_expr.text)
      [] date_expr.kind = "tomorrow" -> now + days(1)
      [] date_expr.kind = "today" -> now
      [] date_expr.kind = "next" ->
           IF date_expr.weekday \in 0..6
           THEN LET days_until == (date_expr.weekday - weekday(now)) % 7
                IN  now + days(IF days_until = 0 THEN 7 ELSE days_until)
           ELSE None
      [] date_expr.kind = "iso" -> datetime(date_expr.day, 0, 0)
      [] OTHER -> None

\* The fallback to tomorrow and the "Final safety check".
tool_resolve_date(date_expr) ==
    LET parsed == tool_parse_date(date_expr)
        appointment_date == IF parsed = None THEN now + days(1) ELSE parsed
    IN  IF appointment_date < now THEN now + days(1) ELSE appointment_date

\* The date handling of the tool from its first line, or None where the
\* "SAFETY CHECK" raises.
tool_date(date_expr) ==
    LET checked == safety_check(date_expr.text)
    IN  IF date_expr.kind # "text" THEN tool_resolve_date(date_expr)
        ELSE IF checked.raised THEN None
        ELSE tool_resolve_date([kind |-> "text", text |-> checked.date])

\* The 12-hour clock of the time parsers: `pm` adds 12 to an hour below 12,
\* `am` turns 12 into 0.
to_24h(h, pm, am) ==
    IF pm /\ h < 12 THEN h + 12
    ELSE IF am /\ h = 12 THEN 0
    ELSE h

Text_colon == <<":">>
Text_pm == <<"p", "m">>
Text_am == <<"a", "m">>
Noon == <<12, 0>>

\* The "3:30 PM" branch on time.split(":"): int() of the first piece and of
\* the digits of the second, noon where either raises.
colon_time(hour_text, minute_part) ==
    IF int(hour_text) = None \/ only_digits(minute_part) = <<>>
    THEN Noon
    ELSE <<to_24h(int(hour_text), contains(minute_part, Text_pm), contains(minute_part, Text_am)),
           digits_value(only_digits(minute_part))>>

\* The "3pm" branch: the digits of the whole text are the hour.
ampm_time(lowered, numeric_part) ==
    IF numeric_part = <<>>
    THEN Noon
    ELSE <<to_24h(digits_value(numeric_part), contains(lowered, Text_pm), contains(lowered, Text_am)), 0>>

\* "Simple time parsing" on the text given as `time`.
tool_parse_time_text(time_text) ==
    IF contains(time_text, Text_colon)
    THEN colon_time(split_char(time_text, ":")[1], text_lower(split_char(time_text, ":")[2]))
    ELSE IF contains(text_lower(time_text), Text_pm) \/ contains(text_lower(time_text), Text_am)
    THEN ampm_time(text_lower(time_text), only_digits(time_text))
    ELSE IF int(time_text) = None THEN Noon
    ELSE <<int(time_text), 0>>

\* "Simple time parsing": <<appointment_hour, appointment_minute>>.
tool_parse_time(time_expr) ==
    IF "text" \in DOMAIN time_expr THEN tool_parse_time_text(time_expr.text)
    ELSE IF "garbage" \in DOMAIN time_expr THEN Noon
    ELSE IF time_expr.colon
    THEN <<to_24h(time_expr.hour, time_expr.ampm = "pm", time_expr.ampm = "am"), time_expr.minute>>
    ELSE <<to_24h(time_expr.hour, time_expr.ampm = "pm", time_expr.ampm = "am"), 0>>

\* book_appointment(phone_number, date, time, service_type, recipient, confirmed,
\* customer_name) of agent.py from "Construct a datetime object" on,
\* `appointment_date` and `hm` being what the date handling and the time parsing
\* gave: the state after and the service's result.
\* appointment_date.replace(hour=..., minute=...) raises on an hour above 23 or a
\* minute above 59, before the service is called.
book_appointment_on(w, phone_number, appointment_date, hm, service_type, recipient, confirmed, customer_name, env) ==
    LET phone == IF phone_number = "" THEN "1234567890" ELSE phone_number
        appointment_dt == datetime(date(appointment_date), hm[1], hm[2])
        entities == [datetime |-> strftime_datetime(appointment_dt),
                     service_type |-> service_type,
                     recipient |-> recipient,
                     confirmed |-> confirmed,
                     customer_name |-> customer_name]
    IN  IF appointment_date = None
        THEN [w |-> w, result |-> Result(FALSE, "raised", None, NoId)]
        ELSE IF hm[1] \notin 0..23 \/ hm[2] \notin 0..59
        THEN [w |-> w, result |-> Result(FALSE, "raised", None, NoId)]
        ELSE book_appt_service(w, phone, entities, env)

\* The tool from its first line: the date handling, then the rest.
book_appointment(w, phone_number, date_expr, time_expr, service_type, recipient, confirmed, customer_name, env) ==
    book_appointment_on(w, phone_number, tool_date(date_expr), tool_parse_time(time_expr), service_type, recipient, confirmed, customer_name, env)


-----------------------------------------------------------------------------
(* parse_datetime of appointment_service.py, on the lowered text.          *)

Text_at == <<"a", "t">>
Text_this == <<"t", "h", "i", "s">>
Text_next == <<"n", "e", "x", "t">>
Text_on == <<"o", "n">>
Text_the == <<"t", "h", "e">>

\* <<hour, minute>> of a regex match, after the am/pm rule.
clock_of(m) == <<to_24h(m.hour, m.am_pm = Text_pm, m.am_pm = Text_am), m.minute>>

\* What int() and time() leave where they raise: no clock.
NoClock == <<None, None>>

\* datetime.combine(day, time(hour, minute)), None where time() raised or a
\* step before it did (parse_datetime's outer except returns None).
combine(day, hm) ==
    IF day = None \/ hm[1] \notin 0..23 \/ hm[2] \notin 0..59 THEN None
    ELSE datetime(day, hm[1], hm[2])

\* time_part.split("at")[1].strip() where "at" is in the time part.
after_at(time_part) ==
    IF contains(time_part, Text_at) THEN strip(split_sep(time_part, Text_at)[2])
    ELSE time_part

\* The clock of a time part: the regex match, noon for an empty part or none.
clock_of_part(time_part) ==
    IF time_part = <<>> \/ ~time_match(time_part).found THEN Noon
    ELSE clock_of(time_match(time_part))

\* The "tomorrow" branch.
parse_tomorrow(s) ==
    combine(date(now) + 1, clock_of_part(after_at(strip(without(s, Text_tomorrow)))))

\* re.match(r'(\d{4})-(\d{1,2})-(\d{1,2})', s): year, month, day and the text
\* after the match, NoMatch for none.
iso_day_on(y, m, day_text) ==
    IF leading_digits(day_text) = <<>> THEN NoMatch
    ELSE [found |-> TRUE, year |-> y, month |-> m,
          day |-> digits_value(Take(leading_digits(day_text), 2)),
          rest |-> drop(day_text, Len(Take(leading_digits(day_text), 2)))]

iso_month_on(y, month_text) ==
    IF /\ Len(leading_digits(month_text)) \in 1..2
       /\ Len(month_text) > Len(leading_digits(month_text))
       /\ month_text[Len(leading_digits(month_text)) + 1] = "-"
    THEN iso_day_on(y, digits_value(leading_digits(month_text)),
                    drop(month_text, Len(leading_digits(month_text)) + 1))
    ELSE NoMatch

iso_match(s) ==
    IF Len(leading_digits(s)) = 4 /\ Len(s) > 4 /\ s[5] = "-"
    THEN iso_month_on(digits_value(leading_digits(s)), drop(s, 5))
    ELSE NoMatch

\* The ISO branch on a match; the date pattern is taken out of the text where
\* it matched (the texts here hold it once).
parse_iso(found) ==
    IF datetime_ymd(found.year, found.month, found.day) = None THEN None
    ELSE combine(date(datetime_ymd(found.year, found.month, found.day)),
                 clock_of_part(after_at(strip(found.rest))))

\* The first day of `days` the text names, in full or by its first three
\* letters as a word; 0 for none.
names_day(s, i) ==
    contains(s, day_names[i]) \/ \E k \in DOMAIN split_words(s) : split_words(s)[k] = Take(day_names[i], 3)

named_day(s) ==
    IF \E i \in 1..7 : names_day(s, i)
    THEN CHOOSE i \in 1..7 : names_day(s, i) /\ \A j \in 1..(i - 1) : ~names_day(s, j)
    ELSE 0

\* days_ahead for day i of `days` (0 = monday).
rolled(ahead) == IF ahead = 0 /\ hour(now) >= CLOSING_HOUR THEN 7 ELSE ahead

days_ahead_this_week(s, ahead) ==
    IF contains(s, Text_this) THEN rolled(ahead)
    ELSE IF ahead = 0 THEN rolled(ahead)
    ELSE ahead

days_ahead(s, i) ==
    IF contains(s, Text_next) /\ days_ahead_this_week(s, (i - weekday(now)) % 7) < 7
    THEN days_ahead_this_week(s, (i - weekday(now)) % 7) + 7
    ELSE days_ahead_this_week(s, (i - weekday(now)) % 7)

\* The words kept for the time: not the day, "next", "this", "on", "the", "am",
\* "pm", nor any word holding "at".
time_words(s, day) ==
    SelectSeq(split_words(s),
              LAMBDA word : /\ word \notin {day, Take(day, 3), Text_next, Text_this, Text_on, Text_the}
                            /\ ~contains(word, Text_at)
                            /\ word \notin {Text_am, Text_pm})

\* The colon form of the weekday branch: hour, minute = time_str.split(":");
\* pm adds 12 to an hour below 12 and nothing is done for am.
weekday_colon_clock(parts) ==
    IF Len(parts) # 2 THEN NoClock
    ELSE IF int(parts[1]) = None \/ int(without(without(parts[2], Text_am), Text_pm)) = None
    THEN NoClock
    ELSE <<IF contains(parts[2], Text_pm) /\ int(parts[1]) < 12 THEN int(parts[1]) + 12 ELSE int(parts[1]),
           int(without(without(parts[2], Text_am), Text_pm))>>

weekday_clock(time_str) ==
    IF contains(time_str, Text_colon) THEN weekday_colon_clock(split_char(time_str, ":"))
    ELSE IF time_str = <<>> \/ ~hour_match(time_str).found THEN Noon
    ELSE clock_of(hour_match(time_str))

\* The day-of-week branch for day i of `days` (1 = monday here).
parse_weekday(s, i) ==
    combine(date(now) + days_ahead(s, i - 1),
            weekday_clock(strip(without(join_words(time_words(s, day_names[i])), Text_at))))

\* re.search(r'(\d{1,2})[/-](\d{1,2})(?:[/-](\d{2,4}))?', s).  The month
\* group at position i takes two digits where a separator and a digit follow
\* them, else one.
is_sep(c) == c \in {"/", "-"}

month_len(s, i) ==
    IF ~is_digit_char(s[i]) THEN 0
    ELSE IF i + 3 <= Len(s) /\ is_digit_char(s[i + 1]) /\ is_sep(s[i + 2]) /\ is_digit_char(s[i + 3]) THEN 2
    ELSE IF i + 2 <= Len(s) /\ is_sep(s[i + 1]) /\ is_digit_char(s[i + 2]) THEN 1
    ELSE 0

has_year(after_day) ==
    Len(after_day) >= 3 /\ is_sep(after_day[1]) /\ Len(leading_digits(Tail(after_day))) >= 2

date_match_on(before, month_text, day_text) ==
    LET day_digits == Take(leading_digits(day_text), 2)
        after_day == drop(day_text, Len(day_digits))
        year_digits == IF has_year(after_day) THEN Take(leading_digits(Tail(after_day)), 4) ELSE <<>>
    IN  [found |-> TRUE,
         month |-> digits_value(month_text),
         day |-> digits_value(day_digits),
         year_text |-> year_digits,
         rest |-> before \o (IF has_year(after_day) THEN drop(after_day, 1 + Len(year_digits)) ELSE after_day)]

date_match_at(s, i) ==
    date_match_on(SubSeq(s, 1, i - 1), SubSeq(s, i, i + month_len(s, i) - 1), drop(s, i + month_len(s, i)))

date_match(s) ==
    IF \A i \in DOMAIN s : month_len(s, i) = 0 THEN NoMatch
    ELSE date_match_at(s, CHOOSE i \in DOMAIN s :
                              month_len(s, i) > 0 /\ \A j \in 1..(i - 1) : month_len(s, j) = 0)

\* The MM/DD branch from the numbers on: datetime(year, month, day, hour,
\* minute), moved to next year where it lies more than a day back.
date_of_pattern(y, m, d, hm) ==
    IF hm[1] \notin 0..23 \/ hm[2] \notin 0..59 THEN None
    ELSE IF datetime_ymd(y, m, d) = None THEN None
    ELSE IF now - combine(date(datetime_ymd(y, m, d)), hm) <= SecondsPerDay
    THEN combine(date(datetime_ymd(y, m, d)), hm)
    ELSE IF datetime_ymd(year(now) + 1, m, d) = None THEN None
    ELSE combine(date(datetime_ymd(year(now) + 1, m, d)), hm)

full_year(found) ==
    IF found.year_text = <<>> THEN year(now)
    ELSE IF digits_value(found.year_text) < 100 THEN digits_value(found.year_text) + 2000
    ELSE digits_value(found.year_text)

parse_date_pattern(found) ==
    IF found.month > 12
    THEN date_of_pattern(full_year(found), found.day, found.month, clock_of_part(strip(found.rest)))
    ELSE date_of_pattern(full_year(found), found.month, found.day, clock_of_part(strip(found.rest)))

\* dateutil's parse(s, fuzzy=True) on a clock time, "H am/pm", "H:MM" or
\* "H:MM:SS" with or without am/pm, as the pieces between the colons: hour,
\* minute and second of today, found = FALSE where the parser raises.  The
\* parser also raises on a text holding no date or time at all; texts of other
\* shapes are not given to it here.
clock_suffix(piece) == strip(drop(piece, Len(leading_digits(piece))))

is_clock_text(parts) ==
    /\ Len(parts) \in 1..3
    /\ \A k \in 1..(Len(parts) - 1) : isdigit(parts[k])
    /\ leading_digits(parts[Len(parts)]) # <<>>
    /\ clock_suffix(parts[Len(parts)]) \in {<<>>, Text_am, Text_pm}
    /\ (Len(parts) > 1 \/ clock_suffix(parts[Len(parts)]) # <<>>)

piece_value(parts, k) ==
    IF k > Len(parts) THEN 0 ELSE digits_value(leading_digits(parts[k]))

dateutil_clock(h, m, sec, suffix) ==
    IF suffix # <<>> /\ h \notin 1..12 THEN NoMatch
    ELSE IF to_24h(h, suffix = Text_pm, suffix = Text_am) \notin 0..23 \/ m \notin 0..59 \/ sec \notin 0..59
    THEN NoMatch
    ELSE [found |-> TRUE, hour |-> to_24h(h, suffix = Text_pm, suffix = Text_am), minute |-> m, second |-> sec]

dateutil_parse(s) ==
    IF ~is_clock_text(split_char(s, ":")) THEN NoMatch
    ELSE dateutil_clock(piece_value(split_char(s, ":"), 1), piece_value(split_char(s, ":"), 2),
                        piece_value(split_char(s, ":"), 3),
                        clock_suffix(split_char(s, ":")[Len(split_char(s, ":"))]))

\* "If the date is in the past, move it to the future" for a time of today:
\* tomorrow at the same time where the hour and minute have passed.
today_or_tomorrow(h, m, sec) ==
    IF /\ datetime(date(now), h, m) + sec < now
       /\ (h < hour(now) \/ (h = hour(now) /\ m < minute(now)))
    THEN datetime(date(now) + 1, h, m) + sec
    ELSE datetime(date(now), h, m) + sec

\* The dateutil branch on what the parser found, a time of today: noon for
\* 00:00 with no am/pm in the text.
after_dateutil(s, found) ==
    IF found.hour = 0 /\ found.minute = 0 /\ ~contains(s, Text_am) /\ ~contains(s, Text_pm)
    THEN today_or_tomorrow(12, 0, 0)
    ELSE today_or_tomorrow(found.hour, found.minute, found.second)

\* parse_datetime(datetime_str): the datetime, or None.
parse_datetime_lowered(s) ==
    IF contains(s, Text_tomorrow) THEN parse_tomorrow(s)
    ELSE IF iso_match(s).found THEN parse_iso(iso_match(s))
    ELSE IF named_day(s) # 0 THEN parse_weekday(s, named_day(s))
    ELSE IF date_match(s).found THEN parse_date_pattern(date_match(s))
    ELSE IF dateutil_parse(s).found THEN after_dateutil(s, dateutil_parse(s))
    ELSE None

parse_datetime(datetime_str) == parse_datetime_lowered(text_lower(datetime_str))

\* book_appointment(phone_number, entities) of appointment_service.py where
\* entities['datetime'] is a text that is not a "%Y-%m-%d %H:%M:%S" string:
\* parse_datetime reads it, directly or after strptime raised on it.  The
\* customer's name is saved before; None gives the "couldn't understand" answer.
book_appt_parsed(w, phone_number, entities, appointment_dt, env) ==
    IF appointment_dt = None
    THEN [w |-> IF entities.customer_name # ""
                THEN save_customer_info(w, phone_number, [name |-> entities.customer_name], env.info)
                ELSE w,
          result |-> Result(FALSE, "unparseable", None, NoId)]
    ELSE book_appt_service(w, phone_number,
                           [entities EXCEPT !.datetime = strftime_datetime(appointment_dt)], env)

book_appt_natural(w, phone_number, entities, env) ==
    book_appt_parsed(w, phone_number, entities, parse_datetime(entities.datetime), env)

-----------------------------------------------------------------------------
(* Bounds and the inputs the model draws from.                             *)

\* The most appointments the model lets the two stores hold together: room for
\* one booking, for two, and for enough to pass ten for one customer.
MaxStore == 7
MaxStoreTwo == 8
MaxStoreCap == 11

\* The instants the clock moves through: Monday 09:00 and Monday 12:00.
Instants == {datetime(0, 9, 0), datetime(0, 12, 0)}

StartTime == datetime(0, 9, 0)

MockPhone == "+19176565597"
Phones == {MockPhone, "+tg42"}
Recipients == {"self", "Self", "brother"}
CustomerNames == {"", "Al"}

\* Sunday of the first week, as "YYYY-MM-DD".
DateExprs ==
    {[kind |-> "today"], [kind |-> "tomorrow"], [kind |-> "iso", day |-> 6]}

\* "11:00 AM" and "9am".
TimeExprs ==
    {[hour |-> 11, minute |-> 0, colon |-> TRUE, ampm |-> "am"],
     [hour |-> 9, minute |-> 0, colon |-> FALSE, ampm |-> "am"]}

\* get_sheet_client() returns None on every call: no credentials are configured.
NoClient ==
    [info |-> "none", read |-> "none", alt |-> "none", alt_next |-> "none",
     slot_info |-> "none", add |-> "none"]

\* The same for the store calls of cancel_appointment and reschedule_appointment.
NoClientChange == [find |-> "none", read |-> "none", write |-> "none"]

\* Credentials are configured and every spreadsheet request succeeds.
SheetUp ==
    [info |-> "client", read |-> "client", alt |-> "client", alt_next |-> "client",
     slot_info |-> "client", add |-> "client"]

\* As SheetUp, but the request that appends the appointment row raises.
SheetInsertFails == [SheetUp EXCEPT !.add = "raise"]

\* As SheetUp, but reading the header row before the append raises.
SheetHeaderReadFails == [SheetUp EXCEPT !.add = "header_raise"]

-----------------------------------------------------------------------------
(* The state after the modules are imported.                               *)

\* initialize_mock_data(): 11:00 and 14:00 on each of the next three days that
\* is not a Sunday.
initialize_mock_data(t0) ==
    LET appt(day_offset, n) ==
            [id |-> <<"APPT", t0, day_offset, n>>,
             phone |-> MockPhone,
             datetime |-> strftime_datetime(
                 datetime(date(t0) + day_offset, IF n = 1 THEN 11 ELSE 14, 0)),
             service_type |-> "haircut",
             created_at |-> strftime_datetime(t0)]
        of_day(day_offset) ==
            IF weekday(t0 + days(day_offset)) = 6
            THEN <<>>
            ELSE <<appt(day_offset, 1), appt(day_offset, 2)>>
    IN  of_day(1) \o of_day(2) \o of_day(3)

Idle == [pc |-> "idle"]
Threads == {1, 2}

\* The lock is held by no thread.
Unlocked == 0

\* RateLimiter.__init__(max_calls_per_minute): no call recorded, the lock free.
RateLimiter(max_calls) == [max_calls |-> max_calls, calls |-> <<>>, lock |-> Unlocked]

\* The limit the global sheets_rate_limiter is built with.
max_calls_per_minute == 2

Init ==
    /\ now = StartTime
    /\ MOCK_DB = [appointments |-> initialize_mock_data(StartTime), customers |-> EmptyDict]
    /\ SHEET = [appointments |-> <<>>, headers |-> 5, customers |-> EmptyDict]
    /\ jobs = {}
    /\ scheduled_reminders = {}
    /\ sent = {}
    /\ last = [op |-> "none"]
    /\ asked = {}
    /\ threads = [th \in Threads |-> Idle]
    /\ sheets_rate_limiter = RateLimiter(max_calls_per_minute)
    /\ let_through = <<>>
    /\ CONVERSATION_MEMORY_CACHE = EmptyDict

-----------------------------------------------------------------------------
(* Actions: one tool call each, run from start to end.                     *)

StoreSize(w) == Len(w.MOCK_DB.appointments) + Len(w.SHEET.appointments)

Commit(after, bound) ==
    /\ StoreSize(after) <= bound
    /\ MOCK_DB' = after.MOCK_DB
    /\ SHEET' = after.SHEET
    /\ jobs' = after.jobs
    /\ scheduled_reminders' = after.scheduled_reminders
    /\ sent' = after.sent

BookAppointment(phone_number, date_expr, time_expr, recipient, confirmed, customer_name, env, bound) ==
    LET r == book_appointment(World, phone_number, date_expr, time_expr, "haircut",
                              recipient, confirmed, customer_name, env)
    IN  /\ Commit(r.w, bound)
        /\ last' = [op |-> "book", phone |-> phone_number, recipient |-> recipient,
                    confirmed |-> confirmed, result |-> r.result]
        /\ UNCHANGED <<now, threads, sheets_rate_limiter, let_through, CONVERSATION_MEMORY_CACHE>>

Tick ==
    /\ \E t \in Instants : t > now /\ now' = t
    /\ UNCHANGED <<MOCK_DB, SHEET, jobs, scheduled_reminders, sent, last, asked, threads, sheets_rate_limiter, let_through, CONVERSATION_MEMORY_CACHE>>

\* Some customer calls the book_appointment tool.
BookAny(phones, dates, times, recipients, names, envs, bound) ==
    \E p \in phones, d \in dates, t \in times, r \in recipients,
       c \in BOOLEAN, n \in names, env \in envs :
        BookAppointment(p, d, t, r, c, n, env, bound)

\* The count_user_appointments tool.
CountUserAppointments(phone_number) ==
    /\ last' = [op |-> "count", phone |-> phone_number,
                result |-> count_user_appointments(World, phone_number, "none")]
    /\ UNCHANGED <<now, MOCK_DB, SHEET, jobs, scheduled_reminders, sent, asked, threads, sheets_rate_limiter, let_through, CONVERSATION_MEMORY_CACHE>>

\* No credentials configured; customers book for themselves and for others.
Book ==
    /\ BookAny(Phones, DateExprs, TimeExprs, {"self", "brother"}, {""}, {NoClient}, MaxStore)
    /\ UNCHANGED asked

Next == Book \/ Tick

Spec == Init /\ [][Next]_vars

Today == {[kind |-> "today"]}
Tomorrow == {[kind |-> "tomorrow"]}
ElevenAM == {[hour |-> 11, minute |-> 0, colon |-> TRUE, ampm |-> "am"]}

\* Requests that may carry the customer's name, and a recipient in any case.
BookNamed ==
    /\ BookAny(Phones, Tomorrow, TimeExprs, Recipients, CustomerNames,
               {NoClient}, MaxStore)
    /\ UNCHANGED asked

NextNames == BookNamed \/ Tick

SpecNames == Init /\ [][NextNames]_vars

\* Requests whose needs-confirmation answers are remembered in `asked`.
BookAsked ==
    /\ BookAny(Phones, Today \cup Tomorrow, ElevenAM, {"self"}, {""},
               {NoClient}, MaxStore)
    /\ asked' = IF last'.result.kind = "needs_confirmation"
                THEN asked \cup {<<last'.phone, last'.result.datetime>>}
                ELSE asked

NextConfirm == BookAsked \/ Tick

SpecConfirm == Init /\ [][NextConfirm]_vars

\* One customer books again and again, and asks for the count in between.
BookMany ==
    /\ BookAny({MockPhone}, Today \cup Tomorrow, ElevenAM, {"brother"}, {""},
               {NoClient}, MaxStoreCap)
    /\ UNCHANGED asked

CountMany == CountUserAppointments(MockPhone)

NextCap == BookMany \/ CountMany \/ Tick

SpecCap == Init /\ [][NextCap]_vars

\* Credentials are configured; the insert may fail.
BookSheet ==
    /\ BookAny({MockPhone}, Today \cup Tomorrow, ElevenAM, {"self", "brother"}, {""},
               {SheetUp, SheetInsertFails}, MaxStoreTwo)
    /\ UNCHANGED asked

NextSheet == BookSheet \/ Tick

SpecSheet == Init /\ [][NextSheet]_vars

\* The cancel_appointment tool of agent.py.
CancelAppointment(phone_number, appointment_id, env, bound) ==
    LET r == cancel_appt_service(World, phone_number, appointment_id, env)
    IN  /\ Commit(r.w, bound)
        /\ last' = [op |-> "cancel", phone |-> phone_number,
                    appointment_id |-> appointment_id, result |-> r.result]
        /\ UNCHANGED <<now, threads, sheets_rate_limiter, let_through, CONVERSATION_MEMORY_CACHE>>

\* The reschedule_appointment tool of agent.py.
RescheduleAppointment(phone_number, new_date, new_time, appointment_id, env, bound) ==
    LET r == reschedule_appt_service(World, phone_number, new_date, new_time,
                                     appointment_id, env)
    IN  /\ Commit(r.w, bound)
        /\ last' = [op |-> "reschedule", phone |-> phone_number,
                    new_date |-> new_date, new_time |-> new_time,
                    appointment_id |-> appointment_id, result |-> r.result]
        /\ UNCHANGED <<now, threads, sheets_rate_limiter, let_through, CONVERSATION_MEMORY_CACHE>>

\* The ids a customer may quote: none, and the id of a booking made at the start.
QuotedIds == {NoId, <<"APPT", StartTime>>}

ThreePM == {[hour |-> 3, minute |-> 0, colon |-> FALSE, ampm |-> "pm"]}
Tuesday == {[kind |-> "iso", day |-> 1]}
Wednesday == {[kind |-> "iso", day |-> 2]}

\* Customers book a slot of today and cancel, by id or, the customer without
\* mock appointments, the next upcoming one.
BookToday ==
    /\ BookAny(Phones, Today, ElevenAM, {"self", "brother"}, {""}, {NoClient}, MaxStoreTwo)
    /\ UNCHANGED asked

Cancel ==
    /\ \E p \in Phones, id \in QuotedIds :
          /\ id # NoId \/ p # MockPhone
          /\ CancelAppointment(p, id, NoClientChange, MaxStoreTwo)
    /\ UNCHANGED asked

NextCancel == BookToday \/ Cancel \/ Tick

SpecCancel == Init /\ [][NextCancel]_vars

\* Customers book a slot of today and reschedule.
BookFirst ==
    /\ BookAny(Phones, Today, ElevenAM, {"self", "brother"}, {""}, {NoClient}, MaxStoreTwo)
    /\ UNCHANGED asked

Reschedule ==
    /\ \E p \in Phones, d \in Today \cup Tomorrow \cup Tuesday \cup {[kind |-> "empty"]},
          t \in ElevenAM \cup ThreePM, id \in QuotedIds :
          RescheduleAppointment(p, d, t, id, NoClientChange, MaxStoreTwo)
    /\ UNCHANGED asked

NextReschedule == BookFirst \/ Reschedule \/ Tick

SpecReschedule == Init /\ [][NextReschedule]_vars

\* One customer books the same slots again while the clock passes the instants
\* at which a reminder of 11:00 falls due: Monday 10:00 and Monday 11:00.
ReminderInstants == {datetime(0, 9, 0), datetime(0, 10, 0), datetime(0, 11, 0)}

BookAgain ==
    /\ BookAny({MockPhone}, Today \cup Tomorrow, ElevenAM, {"brother"}, {""},
               {NoClient}, MaxStoreTwo)
    /\ UNCHANGED asked

TickReminders ==
    /\ \E t \in ReminderInstants : t > now /\ now' = t
    /\ UNCHANGED <<MOCK_DB, SHEET, jobs, scheduled_reminders, sent, last, asked, threads, sheets_rate_limiter, let_through, CONVERSATION_MEMORY_CACHE>>

NextReminders == BookAgain \/ TickReminders

SpecReminders == Init /\ [][NextReminders]_vars

\* The most appointments the stores hold where a whole day gets booked out.
MaxStoreSlots == 15

\* The service is started on a Saturday at 16:00.
SaturdayAfternoon == datetime(5, 16, 0)

InitSlots ==
    /\ now = SaturdayAfternoon
    /\ MOCK_DB = [appointments |-> initialize_mock_data(SaturdayAfternoon),
                  customers |-> EmptyDict]
    /\ SHEET = [appointments |-> <<>>, headers |-> 5, customers |-> EmptyDict]
    /\ jobs = {}
    /\ scheduled_reminders = {}
    /\ sent = {}
    /\ last = [op |-> "none"]
    /\ asked = {}
    /\ threads = [th \in Threads |-> Idle]
    /\ sheets_rate_limiter = RateLimiter(max_calls_per_minute)
    /\ let_through = <<>>
    /\ CONVERSATION_MEMORY_CACHE = EmptyDict

\* The Monday after, as "YYYY-MM-DD".
NextMonday == {[kind |-> "iso", day |-> 7]}

\* "2:00 PM" and "5:30 PM".
AfternoonTimes ==
    {[hour |-> 2, minute |-> 0, colon |-> TRUE, ampm |-> "pm"],
     [hour |-> 5, minute |-> 30, colon |-> TRUE, ampm |-> "pm"]}

\* A customer asks for an afternoon slot for themselves, today or next Monday,
\* and confirms.
RequestSlot ==
    /\ \E d \in Today \cup NextMonday, t \in AfternoonTimes :
          BookAppointment("+tg42", d, t, "self", TRUE, "", NoClient, MaxStoreSlots)
    /\ UNCHANGED asked

\* The mock customer books next Monday for other people, a quarter past each
\* hour from 10:15 on, one hour after the other.
QuarterPast(h) ==
    [hour |-> IF h > 12 THEN h - 12 ELSE h, minute |-> 15, colon |-> TRUE,
     ampm |-> IF h < 12 THEN "am" ELSE "pm"]

BookOut ==
    /\ \E h \in OPENING_HOUR..(CLOSING_HOUR - 1) :
          /\ h = OPENING_HOUR
                   + Cardinality({i \in DOMAIN MOCK_DB.appointments :
                                     MOCK_DB.appointments[i].datetime.M = 15})
          /\ \E d \in NextMonday :
                BookAppointment(MockPhone, d, QuarterPast(h), "brother", TRUE, "",
                                NoClient, MaxStoreSlots)
    /\ UNCHANGED asked

NextSlots == RequestSlot \/ BookOut

SpecSlots == InitSlots /\ [][NextSlots]_vars

\* The instants the clock moves through where the lead time is looked at.
LeadInstants == {datetime(0, 9, 0), datetime(0, 9, 30)}

\* A day as "YYYY-MM-DD" and a time as "H:MM am/pm".
IsoDate(day) == [kind |-> "iso", day |-> day]
ClockText(h, m, ampm) == [hour |-> h, minute |-> m, colon |-> TRUE, ampm |-> ampm]

\* The new times asked for: this Monday (today) at 9:30 AM, 10:00 AM, 10:15 AM,
\* 10:30 AM and 6:00 PM, Saturday at 10:00 AM and 5:30 PM, Sunday at 10:30 AM.
EdgeRequests ==
    {<<IsoDate(0), ClockText(9, 30, "am")>>,
     <<IsoDate(0), ClockText(10, 0, "am")>>,
     <<IsoDate(0), ClockText(10, 15, "am")>>,
     <<IsoDate(0), ClockText(10, 30, "am")>>,
     <<IsoDate(0), ClockText(6, 0, "pm")>>,
     <<IsoDate(5), ClockText(10, 0, "am")>>,
     <<IsoDate(5), ClockText(5, 30, "pm")>>,
     <<IsoDate(6), ClockText(10, 30, "am")>>}

\* The mock customer asks to move their next appointment.
MoveNext ==
    /\ \E r \in EdgeRequests :
          RescheduleAppointment(MockPhone, r[1], r[2], NoId, NoClientChange, MaxStore)
    /\ UNCHANGED asked

TickLead ==
    /\ \E t \in LeadInstants : t > now /\ now' = t
    /\ UNCHANGED <<MOCK_DB, SHEET, jobs, scheduled_reminders, sent, last, asked, threads, sheets_rate_limiter, let_through, CONVERSATION_MEMORY_CACHE>>

NextValid == MoveNext \/ TickLead

SpecValid == Init /\ [][NextValid]_vars

\* "25:00" and "10:75 am": an hour and a minute no clock shows.
OddTimes ==
    {[hour |-> 25, minute |-> 0, colon |-> TRUE, ampm |-> ""],
     [hour |-> 10, minute |-> 75, colon |-> TRUE, ampm |-> "am"]}

\* Customers book, move and cancel, also with times no clock shows.
BookOdd ==
    /\ BookAny(Phones, Tomorrow, OddTimes \cup ElevenAM, {"self", "brother"}, {""},
               {NoClient}, MaxStore)
    /\ UNCHANGED asked

MoveOdd ==
    /\ \E p \in Phones, d \in Tuesday, t \in OddTimes \cup ThreePM :
          RescheduleAppointment(p, d, t, NoId, NoClientChange, MaxStore)
    /\ UNCHANGED asked

CancelOdd ==
    /\ \E id \in QuotedIds : CancelAppointment("+tg42", id, NoClientChange, MaxStore)
    /\ UNCHANGED asked

NextOdd == BookOdd \/ MoveOdd \/ CancelOdd \/ Tick

SpecOdd == Init /\ [][NextOdd]_vars

\* What the spreadsheet service answers to the attempts to connect of one store
\* call: n times "rate_limited", then `answer`, then "connected".
ConnectScenario(n, answer) ==
    [i \in 1..max_tries |->
        IF i <= n THEN "rate_limited" ELSE IF i = n + 1 THEN answer ELSE "connected"]

ConnectScenarios ==
    {ConnectScenario(n, answer) : n \in 0..max_tries, answer \in {"connected", "error"}}

\* Credentials are configured.  A customer books tomorrow 11:00, for themselves
\* or for somebody else, and confirms; the reads go through, the insert meets
\* the service's answers.
BookRetrying ==
    /\ \E p \in {"+tg42"}, r \in {"self", "brother"}, d \in Tomorrow, t \in ElevenAM,
          attempts \in ConnectScenarios, request \in {"ok", "raise"} :
          LET call == store_call(attempts, request)
              done == book_appointment(World, p, d, t, "haircut", r, TRUE, "",
                                       [SheetUp EXCEPT !.add = call.cl])
          IN  /\ Commit(done.w, MaxStore)
              /\ last' = [op |-> "book", phone |-> p, recipient |-> r,
                          confirmed |-> TRUE, result |-> done.result,
                          attempts |-> attempts, request |-> request, call |-> call]
    /\ UNCHANGED <<now, threads, asked, sheets_rate_limiter, let_through, CONVERSATION_MEMORY_CACHE>>

NextRetry == BookRetrying \/ Tick

SpecRetry == Init /\ [][NextRetry]_vars

\* Whether the reminders get scheduled, the customer's message gets sent and
\* the barber's message gets sent, in every combination of the calls that a
\* booking, a cancellation and a reschedule make.
BookingOutcomes == [reminders : BOOLEAN, confirmation : BOOLEAN, barber : BOOLEAN]
CancelOutcomes == [barber : BOOLEAN]
MoveOutcomes == [reminders : BOOLEAN, barber : BOOLEAN]

\* A customer books tomorrow 11:00 for somebody else; the notifications may fail.
BookNotifying ==
    /\ \E c \in BOOLEAN, out \in BookingOutcomes :
          LET done == book_appointment(World, "+tg42", [kind |-> "tomorrow"],
                                       CHOOSE t \in ElevenAM : TRUE, "haircut",
                                       "brother", c, "", NoClient @@ out)
          IN  /\ Commit(done.w, MaxStore)
              /\ last' = [op |-> "book", phone |-> "+tg42", recipient |-> "brother",
                          confirmed |-> c, result |-> done.result, outcomes |-> out]
    /\ UNCHANGED <<now, threads, asked, sheets_rate_limiter, let_through, CONVERSATION_MEMORY_CACHE>>

\* The customer cancels their next appointment; the barber's message may fail.
CancelNotifying ==
    /\ \E out \in CancelOutcomes :
          LET done == cancel_appt_service(World, "+tg42", NoId, NoClientChange @@ out)
          IN  /\ Commit(done.w, MaxStore)
              /\ last' = [op |-> "cancel", phone |-> "+tg42", appointment_id |-> NoId,
                          result |-> done.result, outcomes |-> out]
    /\ UNCHANGED <<now, threads, asked, sheets_rate_limiter, let_through, CONVERSATION_MEMORY_CACHE>>

\* The customer moves their next appointment to 3pm of tomorrow or of
\* Wednesday; the notifications may fail.
MoveNotifying ==
    /\ \E d \in Tomorrow \cup Wednesday, t \in ThreePM, out \in MoveOutcomes :
          LET done == reschedule_appt_service(World, "+tg42", d, t, NoId,
                                              NoClientChange @@ out)
          IN  /\ Commit(done.w, MaxStore)
              /\ last' = [op |-> "reschedule", phone |-> "+tg42", new_date |-> d,
                          new_time |-> t, appointment_id |-> NoId,
                          result |-> done.result, outcomes |-> out]
    /\ UNCHANGED <<now, threads, asked, sheets_rate_limiter, let_through, CONVERSATION_MEMORY_CACHE>>

NextNotify == BookNotifying \/ CancelNotifying \/ MoveNotifying

SpecNotify == Init /\ [][NextNotify]_vars

\* The date expressions the tools are given.  "next <weekday>" for each weekday:
NextWeekdayTexts == {Text_next_ \o day_names[i] : i \in 1..7}

\* "in <N> days" and "<weekday> in <N> days":
InDaysText(n) == Text_in \o <<" ">> \o str(n) \o <<" ">> \o Text_days
WeekdayInDaysText(i, n) == day_names[i] \o <<" ">> \o InDaysText(n)
FarAhead == 800
InDaysTexts == {InDaysText(3), InDaysText(FarAhead)}
WeekdayInDaysTexts == {WeekdayInDaysText(4, 6), WeekdayInDaysText(1, 2)}

\* "Tomorrow", "today":
DayWordTexts == {<<"T", "o", "m", "o", "r", "r", "o", "w">>, Text_today}

\* "2026-01-10", "2028-03-01" and, of last year, "2025-06-15":
IsoTexts ==
    {<<"2", "0", "2", "6", "-", "0", "1", "-", "1", "0">>,
     <<"2", "0", "2", "8", "-", "0", "3", "-", "0", "1">>,
     <<"2", "0", "2", "5", "-", "0", "6", "-", "1", "5">>}

\* "april 26":
MonthDayTexts == {<<"a", "p", "r", "i", "l", " ", "2", "6">>}

\* "someday", "in six days", "next month":
OtherTexts ==
    {<<"s", "o", "m", "e", "d", "a", "y">>,
     <<"i", "n", " ", "s", "i", "x", " ", "d", "a", "y", "s">>,
     <<"n", "e", "x", "t", " ", "m", "o", "n", "t", "h">>}

DateTexts ==
    NextWeekdayTexts \cup InDaysTexts \cup WeekdayInDaysTexts \cup DayWordTexts
        \cup IsoTexts \cup MonthDayTexts \cup OtherTexts

\* The modules are imported at 09:00 of some day of the first week.
InitDates ==
    /\ now \in {datetime(d, 9, 0) : d \in 0..6}
    /\ MOCK_DB = [appointments |-> initialize_mock_data(now), customers |-> EmptyDict]
    /\ SHEET = [appointments |-> <<>>, headers |-> 5, customers |-> EmptyDict]
    /\ jobs = {}
    /\ scheduled_reminders = {}
    /\ sent = {}
    /\ last = [op |-> "none"]
    /\ asked = {}
    /\ threads = [th \in Threads |-> Idle]
    /\ sheets_rate_limiter = RateLimiter(max_calls_per_minute)
    /\ let_through = <<>>
    /\ CONVERSATION_MEMORY_CACHE = EmptyDict

\* The calculate_date tool.
CalculateDate ==
    /\ \E date_expression \in DateTexts :
          last' = [op |-> "calculate_date", text |-> date_expression,
                   result |-> calculate_date(date_expression)]
    /\ UNCHANGED <<now, MOCK_DB, SHEET, jobs, scheduled_reminders, sent, asked, threads, sheets_rate_limiter, let_through, CONVERSATION_MEMORY_CACHE>>

\* The check_availability tool.
CheckAvailability ==
    /\ \E date_text \in DateTexts :
          last' = [op |-> "check_availability", text |-> date_text,
                   result |-> check_availability_tool(World, date_text, "none")]
    /\ UNCHANGED <<now, MOCK_DB, SHEET, jobs, scheduled_reminders, sent, asked, threads, sheets_rate_limiter, let_through, CONVERSATION_MEMORY_CACHE>>

\* The most appointments the model lets the book_appointment tool add.
MaxBooked == 1

\* The book_appointment tool, asked for 3pm of the date by a customer who
\* confirms, while it has added fewer than MaxBooked appointments.
BookOnDate ==
    /\ Len(SelectSeq(MOCK_DB.appointments, LAMBDA appt : Len(appt.id) = 2)) < MaxBooked
    /\ \E date_text \in DateTexts, c \in {TRUE} :
          LET done == book_appointment(World, "+tg42", [kind |-> "text", text |-> date_text],
                                       CHOOSE t \in ThreePM : TRUE, "haircut", "self",
                                       c, "", NoClient)
          IN  /\ Commit(done.w, MaxStoreCap)
              /\ last' = [op |-> "book", phone |-> "+tg42", recipient |-> "self",
                          confirmed |-> c, text |-> date_text, result |-> done.result]
    /\ UNCHANGED <<now, threads, asked, sheets_rate_limiter, let_through, CONVERSATION_MEMORY_CACHE>>

NextDates == CalculateDate \/ CheckAvailability \/ BookOnDate

SpecDates == InitDates /\ [][NextDates]_vars

\* A clock time as a customer writes it: the hour, ":MM" where `colon`, `gap`
\* (nothing or a blank) and am or pm as `ampm` spells it.
ClockRequest(h, m, colon, gap, ampm) ==
    [hour |-> h, minute |-> m, ampm |-> text_lower(ampm),
     text |-> str(h) \o (IF colon THEN Text_colon \o two_digits(m) ELSE <<>>) \o gap \o ampm]

\* "12am", "12:30am", "12 AM", "12pm", "12:30 PM", "3pm", "3:30pm", "3:30 PM",
\* "11 pm", "9am", "9:30 am".
ClockRequests ==
    {ClockRequest(12, 0, FALSE, <<>>, Text_am),
     ClockRequest(12, 30, TRUE, <<>>, Text_am),
     ClockRequest(12, 0, FALSE, <<" ">>, <<"A", "M">>),
     ClockRequest(12, 0, FALSE, <<>>, Text_pm),
     ClockRequest(12, 30, TRUE, <<" ">>, <<"P", "M">>),
     ClockRequest(3, 0, FALSE, <<>>, Text_pm),
     ClockRequest(3, 30, TRUE, <<>>, Text_pm),
     ClockRequest(3, 30, TRUE, <<" ">>, <<"P", "M">>),
     ClockRequest(11, 0, FALSE, <<" ">>, Text_pm),
     ClockRequest(9, 0, FALSE, <<>>, Text_am),
     ClockRequest(9, 30, TRUE, <<" ">>, Text_am)}

\* "whenever" and "noonish": no time can be read from them.
UnreadableTimes == {<<"w", "h", "e", "n", "e", "v", "e", "r">>, <<"n", "o", "o", "n", "i", "s", "h">>}

\* "3:30:15 pm", "15:00" and "15": a time with seconds and 24-hour times.
OtherTimes == {<<"3", ":", "3", "0", ":", "1", "5", " ", "p", "m">>, <<"1", "5", ":", "0", "0">>, <<"1", "5">>}

TimeTexts == {r.text : r \in ClockRequests} \cup UnreadableTimes \cup OtherTimes

\* What comes before the time in a text for parse_datetime: "tomorrow at ",
\* "friday at ", "2026-01-10 at ", "1/10 at ", or nothing.
DayPrefixes ==
    {<<"t", "o", "m", "o", "r", "r", "o", "w", " ", "a", "t", " ">>,
     <<"f", "r", "i", "d", "a", "y", " ", "a", "t", " ">>,
     <<"2", "0", "2", "6", "-", "0", "1", "-", "1", "0", " ", "a", "t", " ">>}
DatePrefixes == DayPrefixes \cup {<<"1", "/", "1", "0", " ", "a", "t", " ">>, <<>>}

\* A weekday alone and with a time: "monday" ... "sunday", "Friday at 3pm",
\* "this friday".
WeekdayTexts ==
    {day_names[i] : i \in 1..7} \cup {<<"F", "r", "i", "d", "a", "y", " ", "a", "t", " ", "3", "p", "m">>, <<"t", "h", "i", "s", " ", "f", "r", "i", "d", "a", "y">>}

\* A time alone goes to dateutil's parser, which reads "15" as a day of the
\* month: that text is given only after a date.
DatetimeTexts ==
    ({p \o t : p \in DatePrefixes, t \in TimeTexts} \ {<<"1", "5">>}) \cup WeekdayTexts

\* The modules are imported at 09:00 of some day of the first week, or at
\* 19:00, after closing, of its Monday or Friday.
InitParse ==
    /\ now \in {datetime(d, 9, 0) : d \in 0..6} \cup {datetime(0, 19, 0), datetime(4, 19, 0)}
    /\ MOCK_DB = [appointments |-> initialize_mock_data(now), customers |-> EmptyDict]
    /\ SHEET = [appointments |-> <<>>, headers |-> 5, customers |-> EmptyDict]
    /\ jobs = {}
    /\ scheduled_reminders = {}
    /\ sent = {}
    /\ last = [op |-> "none"]
    /\ asked = {}
    /\ threads = [th \in Threads |-> Idle]
    /\ sheets_rate_limiter = RateLimiter(max_calls_per_minute)
    /\ let_through = <<>>
    /\ CONVERSATION_MEMORY_CACHE = EmptyDict

\* parse_datetime on a text.
ParseDatetime ==
    /\ \E datetime_str \in DatetimeTexts :
          last' = [op |-> "parse_datetime", text |-> datetime_str,
                   result |-> parse_datetime(datetime_str)]
    /\ UNCHANGED <<now, MOCK_DB, SHEET, jobs, scheduled_reminders, sent, asked, threads, sheets_rate_limiter, let_through, CONVERSATION_MEMORY_CACHE>>

\* calculate_date on a weekday.
CalculateWeekday ==
    /\ \E date_expression \in WeekdayTexts :
          last' = [op |-> "calculate_date", text |-> date_expression,
                   result |-> calculate_date(date_expression)]
    /\ UNCHANGED <<now, MOCK_DB, SHEET, jobs, scheduled_reminders, sent, asked, threads, sheets_rate_limiter, let_through, CONVERSATION_MEMORY_CACHE>>

\* The book_appointment tool, asked for tomorrow at a time given as a text by
\* a customer who has not confirmed yet.
BookAtTime ==
    /\ \E time_text \in TimeTexts :
          LET done == book_appointment(World, "+tg42", [kind |-> "tomorrow"],
                                       [text |-> time_text], "haircut", "self",
                                       FALSE, "", NoClient)
          IN  /\ Commit(done.w, MaxStoreCap)
              /\ last' = [op |-> "book", phone |-> "+tg42", recipient |-> "self",
                          confirmed |-> FALSE, time |-> time_text, result |-> done.result]
    /\ UNCHANGED <<now, threads, asked, sheets_rate_limiter, let_through, CONVERSATION_MEMORY_CACHE>>

NextParse == ParseDatetime \/ CalculateWeekday \/ BookAtTime

SpecParse == InitParse /\ [][NextParse]_vars

\* What the service is asked for in words: "tomorrow at 11am" (taken in the
\* mock data), "tomorrow at 3pm", "tomorrow at 9am" and "2026-01-05 at 8am"
\* (before opening), "2026-01-05 at 10am" (the first Monday), "whenever".
NaturalTexts ==
    {<<"t", "o", "m", "o", "r", "r", "o", "w", " ", "a", "t", " ", "1", "1", "a", "m">>, <<"t", "o", "m", "o", "r", "r", "o", "w", " ", "a", "t", " ", "3", "p", "m">>,
     <<"t", "o", "m", "o", "r", "r", "o", "w", " ", "a", "t", " ", "9", "a", "m">>, <<"2", "0", "2", "6", "-", "0", "1", "-", "0", "5", " ", "a", "t", " ", "8", "a", "m">>,
     <<"2", "0", "2", "6", "-", "0", "1", "-", "0", "5", " ", "a", "t", " ", "1", "0", "a", "m">>, <<"w", "h", "e", "n", "e", "v", "e", "r">>}

\* The service is started on the first Monday at 09:00 or at 11:30.
InitOrder ==
    /\ now \in {datetime(0, 9, 0), datetime(0, 11, 30)}
    /\ MOCK_DB = [appointments |-> initialize_mock_data(now), customers |-> EmptyDict]
    /\ SHEET = [appointments |-> <<>>, headers |-> 5, customers |-> EmptyDict]
    /\ jobs = {}
    /\ scheduled_reminders = {}
    /\ sent = {}
    /\ last = [op |-> "none"]
    /\ asked = {}
    /\ threads = [th \in Threads |-> Idle]
    /\ sheets_rate_limiter = RateLimiter(max_calls_per_minute)
    /\ let_through = <<>>
    /\ CONVERSATION_MEMORY_CACHE = EmptyDict

\* The service's book_appointment, called with the date and time in words.
BookNatural ==
    /\ \E date_time \in NaturalTexts, recipient \in {"self", "brother"}, c \in BOOLEAN :
          LET done == book_appt_natural(World, "+tg42",
                                        [datetime |-> date_time, service_type |-> "haircut",
                                         recipient |-> recipient, confirmed |-> c,
                                         customer_name |-> ""], NoClient)
          IN  /\ Commit(done.w, MaxStore)
              /\ last' = [op |-> "book_natural", phone |-> "+tg42", recipient |-> recipient,
                          confirmed |-> c, text |-> date_time, result |-> done.result]
    /\ UNCHANGED <<now, threads, asked, sheets_rate_limiter, let_through, CONVERSATION_MEMORY_CACHE>>

NextOrder == BookNatural

SpecOrder == InitOrder /\ [][NextOrder]_vars

\* A row the worksheet may hold when the service starts: the test appointment
\* fix_google_sheet.py writes under the 5 headers, or a booking for tomorrow
\* 16:00 written under the 7 headers.
SheetRow(headers) ==
    IF headers = 5
    THEN [id |-> <<"TEST", 1>>, phone |-> "+15551234567",
          datetime |-> strftime_datetime(datetime(1, 9, 0)),
          service_type |-> "haircut-test",
          created_at |-> strftime_datetime(StartTime)]
    ELSE [id |-> <<"APPT", 0>>, phone |-> MockPhone,
          datetime |-> strftime_datetime(datetime(1, 16, 0)),
          service_type |-> "haircut", recipient |-> "self", customer_name |-> "",
          created_at |-> strftime_datetime(StartTime)]

\* Credentials are configured.  The Appointments worksheet has no header row
\* and no rows, or the 5 headers get_sheet_client and the setup scripts write,
\* or the 7 headers add_appointment_to_sheet writes, with no row or one.
InitHeaders ==
    /\ now = StartTime
    /\ MOCK_DB = [appointments |-> initialize_mock_data(StartTime), customers |-> EmptyDict]
    /\ \E headers \in {0, 5, 7} :
          SHEET \in {[appointments |-> rows, headers |-> headers, customers |-> EmptyDict] :
                        rows \in IF headers = 0 THEN {<<>>} ELSE {<<>>, <<SheetRow(headers)>>}}
    /\ jobs = {}
    /\ scheduled_reminders = {}
    /\ sent = {}
    /\ last = [op |-> "none"]
    /\ asked = {}
    /\ threads = [th \in Threads |-> Idle]
    /\ sheets_rate_limiter = RateLimiter(max_calls_per_minute)
    /\ let_through = <<>>
    /\ CONVERSATION_MEMORY_CACHE = EmptyDict

\* get_sheet_client() on a worksheet with fewer than 5 headers clears it and
\* writes the 5 headers: what a call that connected leaves where no row was
\* appended after.
headers_checked(w) ==
    IF w.SHEET.headers < 5
    THEN [w EXCEPT !.SHEET.headers = 5, !.SHEET.appointments = <<>>]
    ELSE w

\* A customer books tomorrow 11:00 or 15:00, for themselves or for someone
\* else, confirmed or not.
BookWithHeaders ==
    /\ \E t \in ElevenAM \cup ThreePM, recipient \in {"self", "brother"}, c \in BOOLEAN,
          env \in {SheetUp, SheetInsertFails, SheetHeaderReadFails} :
          LET done == book_appointment(World, "+tg42", [kind |-> "tomorrow"], t, "haircut",
                                       recipient, c, "", env)
          IN  /\ Commit(headers_checked(done.w), MaxStoreTwo)
              /\ last' = [op |-> "book", phone |-> "+tg42", recipient |-> recipient,
                          confirmed |-> c, env |-> env, result |-> done.result]
    /\ UNCHANGED <<now, threads, asked, sheets_rate_limiter, let_through, CONVERSATION_MEMORY_CACHE>>

NextHeaders == BookWithHeaders

SpecHeaders == InitHeaders /\ [][NextHeaders]_vars

\* What get_sheet_client meets on one store call: it connects at once, the
\* first attempt raises an error other than a rate limit, or every attempt is
\* rate limited.
ClientScenarios ==
    {ConnectScenario(0, "connected"), ConnectScenario(0, "error"),
     ConnectScenario(max_tries, "connected")}

\* Credentials are configured.  A customer books tomorrow 11:00 or 15:00 for
\* themselves and confirms; the availability read and the insert each make
\* their own call of get_sheet_client.
BookAcross ==
    /\ \E reading \in ClientScenarios, adding \in ClientScenarios, t \in ElevenAM \cup ThreePM :
          LET env == [SheetUp EXCEPT !.read = store_call(reading, "ok").cl,
                                     !.add = store_call(adding, "ok").cl]
              done == book_appointment(World, "+tg42", [kind |-> "tomorrow"], t,
                                       "haircut", "self", TRUE, "", env)
          IN  /\ Commit(done.w, MaxStoreTwo)
              /\ last' = [op |-> "book", phone |-> "+tg42", recipient |-> "self",
                          confirmed |-> TRUE, reading |-> reading, adding |-> adding,
                          result |-> done.result]
    /\ UNCHANGED <<now, threads, asked, sheets_rate_limiter, let_through, CONVERSATION_MEMORY_CACHE>>

\* get_appointments_for_date for tomorrow or the day after.
ReadDate ==
    /\ \E reading \in ClientScenarios, day \in {date(now) + 1, date(now) + 2} :
          last' = [op |-> "get_appointments_for_date", date |-> day, reading |-> reading,
                   result |-> get_appointments_for_date(World, days(day),
                                                        store_call(reading, "ok").cl)]
    /\ UNCHANGED <<now, MOCK_DB, SHEET, jobs, scheduled_reminders, sent, asked, threads, sheets_rate_limiter, let_through, CONVERSATION_MEMORY_CACHE>>

NextAcross == BookAcross \/ ReadDate

SpecAcross == Init /\ [][NextAcross]_vars

-----------------------------------------------------------------------------
(* Two requests served at once.  The web server runs each request on its   *)
(* own thread, and nothing in book_appointment holds a lock from its       *)
(* availability read to its append, so another thread may run in between:  *)
(* a thread first runs the handler up to "All checks passed", and in a     *)
(* later step the rest.  Each thread serves one request.                   *)

CheckBooking(th, phone_number, date_expr, time_expr, recipient, confirmed) ==
    LET appointment_date == tool_resolve_date(date_expr)
        hm == tool_parse_time(time_expr)
        entities == [datetime |-> strftime_datetime(
                                      datetime(date(appointment_date), hm[1], hm[2])),
                     service_type |-> "haircut",
                     recipient |-> recipient,
                     confirmed |-> confirmed,
                     customer_name |-> ""]
        checked == book_checks(World, phone_number, entities, NoClient)
    IN  /\ threads[th].pc = "idle"
        /\ Commit(checked.w, MaxStoreTwo)
        /\ threads' = [threads EXCEPT ![th] =
                          IF checked.result.kind = "proceed"
                          THEN [pc |-> "commit", phone |-> phone_number,
                                entities |-> entities]
                          ELSE [pc |-> "done", phone |-> phone_number,
                                entities |-> entities, result |-> checked.result]]
        /\ UNCHANGED <<now, last, asked, sheets_rate_limiter, let_through, CONVERSATION_MEMORY_CACHE>>

CommitBooking(th) ==
    /\ threads[th].pc = "commit"
    /\ LET r == book_commit(World, threads[th].phone, threads[th].entities, NoClient)
       IN  /\ Commit(r.w, MaxStoreTwo)
           /\ threads' = [threads EXCEPT ![th] =
                             [pc |-> "done", phone |-> threads[th].phone,
                              entities |-> threads[th].entities, result |-> r.result]]
    /\ UNCHANGED <<now, last, asked, sheets_rate_limiter, let_through, CONVERSATION_MEMORY_CACHE>>

Check ==
    \E th \in Threads, p \in Phones, d \in Today \cup Tomorrow, t \in ElevenAM,
       c \in BOOLEAN :
        CheckBooking(th, p, d, t, "self", c)

Finish == \E th \in Threads : CommitBooking(th)

NextConc == Check \/ Finish

SpecConc == Init /\ [][NextConc]_vars



-----------------------------------------------------------------------------
(* Vocabulary of the properties.                                           *)

\* Every stored appointment, whichever store holds it.
Stored == MOCK_DB.appointments \o SHEET.appointments
StoredAfter == MOCK_DB'.appointments \o SHEET'.appointments

start(appt) == strptime_datetime(appt.datetime)
created(appt) == strptime_datetime(appt.created_at)

\* appointment.get('recipient', 'self')
recipient_of(appt) == IF "recipient" \in DOMAIN appt THEN appt.recipient ELSE "self"

\* The step is one call of the book_appointment tool, described by last'.
BookStep == now' = now /\ last'.op = "book"

SlotUnavailableKinds ==
    {"slot_booked_alternatives", "slot_booked_next_day", "slot_booked_busy"}

\* The slot validity rule for a start `dt` judged at the instant `at`.
ValidSlotAt(dt, at) ==
    /\ weekday(dt) \in 0..5
    /\ hour(dt) >= 10 /\ hour(dt) < 18
    /\ minute(dt) \in {0, 30}
    /\ dt >= at + hours(1)

-----------------------------------------------------------------------------
(* C1.  Concurrent no-double-booking.                                      *)

\* The thread has finished a confirmed request for oneself.
DoneSelf(th) ==
    /\ threads[th].pc = "done"
    /\ threads[th].entities.confirmed
    /\ lower(threads[th].entities.recipient) = "self"

\* C1: of two confirmed recipient='self' requests for the same date and time
\* that two threads have served, however their steps interleaved, at most one
\* returned success, and the store holds at most one appointment for that
\* date and time.
C1_ConcurrentNoDoubleBooking ==
    \A a, b \in Threads :
        (/\ a # b
         /\ DoneSelf(a) /\ DoneSelf(b)
         /\ threads[a].entities.datetime = threads[b].entities.datetime)
        => /\ ~(threads[a].result.success /\ threads[b].result.success)
           /\ Cardinality({i \in DOMAIN Stored :
                             Stored[i].datetime = threads[a].entities.datetime}) <= 1


-----------------------------------------------------------------------------
(* C2.  Sequential no-double-booking.                                      *)

\* A confirmed self request for the start of a stored self appointment.
C2_Case ==
    /\ BookStep
    /\ last'.confirmed
    /\ lower(last'.recipient) = "self"
    /\ \E i \in DOMAIN Stored :
          /\ start(Stored[i]) = last'.result.datetime
          /\ lower(recipient_of(Stored[i])) = "self"

-----------------------------------------------------------------------------
(* C3.  The spec's global conflict check for every recipient.              *)

\* C3: in every reachable state no two stored appointments start less than the
\* appointment duration (30 minutes) apart, bookings for another recipient included.
C3_NoOverlappingAppointments ==
    \A i, j \in DOMAIN Stored :
        i < j => Abs(start(Stored[i]) - start(Stored[j])) >= minutes(30)

-----------------------------------------------------------------------------
(* C4.  The conflict check is skipped for another recipient.               *)

\* C4: a confirmed request whose recipient is not 'self' (case-insensitively) and
\* whose timestamp is within business hours and not in the past is committed
\* whatever appointments are stored: the store gains exactly one appointment, at
\* the requested time.
C4_ConflictCheckSkipped ==
    [][(/\ BookStep
        /\ last'.confirmed
        /\ lower(last'.recipient) # "self"
        /\ last'.result.kind # "raised"
        /\ hour(last'.result.datetime) >= 10 /\ hour(last'.result.datetime) < 18
        /\ last'.result.datetime >= now)
       => /\ last'.result.success
          /\ Len(StoredAfter) = Len(Stored) + 1
          /\ SubSeq(StoredAfter, 1, Len(Stored)) = Stored
          /\ start(StoredAfter[Len(StoredAfter)]) = last'.result.datetime
          /\ StoredAfter[Len(StoredAfter)].recipient = last'.recipient]_vars

\* A booking for another recipient was committed on a start that an earlier
\* appointment already holds.
C4_Witness ==
    /\ last.op = "book" /\ last.result.success /\ lower(last.recipient) # "self"
    /\ \E i, j \in DOMAIN Stored :
          /\ i < j
          /\ start(Stored[i]) = start(Stored[j])
          /\ Stored[j].id = last.result.appointment_id

-----------------------------------------------------------------------------
(* C5.  Validity of every committed start.                                 *)

\* C5: every stored appointment had, when it was committed (created_at), a start
\* that satisfies the slot validity rule, whatever its recipient.
C5_CommitTimeValidity ==
    \A i \in DOMAIN Stored : ValidSlotAt(start(Stored[i]), created(Stored[i]))

-----------------------------------------------------------------------------
(* C6.  PastCheck.                                                         *)

\* C6: a book_appointment request whose resolved timestamp is earlier than the
\* current time is rejected and stores nothing, for every recipient and
\* confirmation value; so no stored appointment starts before it was committed.
C6_PastCheck ==
    /\ [][(BookStep /\ last'.result.kind # "raised" /\ last'.result.datetime < now)
            => (~last'.result.success /\ StoredAfter = Stored)]_vars
    /\ [](\A i \in DOMAIN Stored : start(Stored[i]) >= created(Stored[i]))

\* A confirmed request for another recipient, within business hours, was
\* rejected as being in the past.
C6_Witness ==
    /\ last.op = "book" /\ last.confirmed /\ lower(last.recipient) # "self"
    /\ last.result.kind = "past"
    /\ last.result.datetime < now


-----------------------------------------------------------------------------
(* C7.  The per-customer cap.                                              *)

Upcoming(phone_number) ==
    {i \in DOMAIN Stored : Stored[i].phone = phone_number /\ start(Stored[i]) >= now}

\* C7: in every reachable state each customer holds at most 10 upcoming
\* appointments, counting all recipients.
C7_PerCustomerCap ==
    \A p \in Phones : Cardinality(Upcoming(p)) <= MAX_APPOINTMENTS

-----------------------------------------------------------------------------
(* C8.  The confirmation gate and its side effects.                        *)

\* C8: a request that stops at the confirmation gate returns success=false with
\* the resolved date and time and leaves the appointment store, the customer
\* directory, the reminder jobs and the notification log unchanged, also when
\* the request carries a customer_name.
C8_GateHasNoSideEffects ==
    [][(BookStep /\ last'.result.kind = "needs_confirmation")
         => /\ ~last'.result.success
            /\ MOCK_DB' = MOCK_DB
            /\ SHEET' = SHEET
            /\ jobs' = jobs
            /\ scheduled_reminders' = scheduled_reminders
            /\ sent' = sent]_vars

-----------------------------------------------------------------------------
(* C9.  Confirmation before commit.                                        *)

\* The appointments stored by the book_appointment tool (the mock data's ids
\* carry a day offset and a number).
BookedByTool == {i \in DOMAIN Stored : Len(Stored[i].id) = 2}

\* C9: every appointment committed through the book_appointment tool was
\* preceded by a needs-confirmation answer to the same customer for the same
\* resolved timestamp.
C9_ConfirmationBeforeCommit ==
    \A i \in BookedByTool : <<Stored[i].phone, start(Stored[i])>> \in asked

-----------------------------------------------------------------------------
(* C10.  Reminders only after a successful persist.                        *)

\* C10: a book_appointment call adds reminder jobs, a customer confirmation or
\* an owner notification only when it has stored the appointment and returns
\* success; when the insert fails it returns success=false and adds none.
C10_RemindersOnlyAfterPersist ==
    [][BookStep =>
         /\ (jobs' # jobs \/ scheduled_reminders' # scheduled_reminders \/ sent' # sent)
               => /\ last'.result.success
                  /\ \E i \in DOMAIN StoredAfter :
                        /\ StoredAfter[i].id = last'.result.appointment_id
                        /\ start(StoredAfter[i]) = last'.result.datetime
         /\ last'.result.kind = "error"
               => /\ ~last'.result.success
                  /\ jobs' = jobs
                  /\ scheduled_reminders' = scheduled_reminders
                  /\ sent' = sent]_vars

\* The insert of a confirmed request failed, and nothing reminds or notifies
\* anybody of the attempted appointment.
C10_Witness ==
    /\ last.op = "book" /\ last.confirmed /\ last.result.kind = "error"
    /\ \A j \in jobs : j.args # <<last.phone, last.result.datetime>>
    /\ \A m \in sent : ~(m.customer = last.phone /\ m.time = last.result.datetime)


-----------------------------------------------------------------------------
(* C11.  Reschedule and the reminders of the old time.                     *)

\* The step is one call of the reschedule_appointment tool, described by last'.
RescheduleStep == now' = now /\ last'.op = "reschedule"

\* The appointment the reschedule of this step works on, as <<>> or <<appt>>.
RescheduleTarget ==
    find_appointment(World, last'.phone, last'.appointment_id, "none")

\* C11: after a successful reschedule of an appointment from t1 to another time,
\* no reminder job for the customer's appointment at t1 is left in the scheduler
\* (unless the customer still holds an appointment at t1).
C11_RescheduleReplacesReminders ==
    [][(/\ RescheduleStep
        /\ last'.result.success
        /\ start(RescheduleTarget[1]) # last'.result.datetime
        /\ \A i \in DOMAIN StoredAfter :
              ~(/\ StoredAfter[i].phone = last'.phone
                /\ start(StoredAfter[i]) = start(RescheduleTarget[1])))
       => \A j \in jobs' : j.args # <<last'.phone, start(RescheduleTarget[1])>>]_vars


-----------------------------------------------------------------------------
(* C12.  Reminder planning is idempotent.                                  *)

\* scheduled_reminders without the time each entry was recorded at.
Planned(reminders) ==
    {[id |-> r.id, phone |-> r.phone, appointment_time |-> r.appointment_time,
      reminder_time |-> r.reminder_time, type |-> r.type] : r \in reminders}

\* The customer of this step's booking already holds a tool booking for the
\* same start, so schedule_reminders has run for it before.
PlannedBefore ==
    \E i \in BookedByTool :
        Stored[i].phone = last'.phone /\ start(Stored[i]) = last'.result.datetime

\* C12: the scheduler and scheduled_reminders never hold two entries under one
\* job id (kind, customer, appointment time); applying schedule_reminders twice
\* gives the state of applying it once; and a booking that runs schedule_reminders
\* again for an appointment planned before leaves the jobs and, apart from
\* scheduled_at, scheduled_reminders as they were.
C12_ReminderPlanningIdempotent ==
    /\ [](/\ \A j1, j2 \in jobs : j1.id = j2.id => j1 = j2
          /\ \A r1, r2 \in scheduled_reminders : r1.id = r2.id => r1 = r2
          /\ \A i \in DOMAIN Stored :
                LET once == schedule_reminders(World, Stored[i].phone, start(Stored[i]))
                IN  schedule_reminders(once, Stored[i].phone, start(Stored[i])) = once)
    /\ [][(BookStep /\ last'.result.success /\ PlannedBefore)
            => /\ jobs' = jobs
               /\ Planned(scheduled_reminders') = Planned(scheduled_reminders)]_vars

\* The same customer booked the same start at two different instants, and one
\* single 1h reminder is recorded for it, at the later instant.
C12_Witness ==
    \E i, j \in BookedByTool :
        /\ Stored[i].phone = Stored[j].phone
        /\ start(Stored[i]) = start(Stored[j])
        /\ created(Stored[i]) < created(Stored[j])
        /\ \E r \in scheduled_reminders :
              /\ r.id = job_id("1h", Stored[i].phone, start(Stored[i]))
              /\ r.scheduled_at = created(Stored[j])

-----------------------------------------------------------------------------
(* C13.  Reminders whose fire time has passed are omitted.                 *)

\* The booking of this step left a job of `kind` for its appointment exactly
\* when the fire time is strictly later than now or the job was there before.
JobIffDue(kind, before) ==
    LET id == job_id(kind, last'.phone, last'.result.datetime)
        due == last'.result.datetime - before > now
    IN  /\ due => \E j \in jobs' : j.id = id /\ j.run_date = last'.result.datetime - before
        /\ ~due => ((\E j \in jobs' : j.id = id) <=> (\E j \in jobs : j.id = id))
        /\ ~due => ((\E r \in scheduled_reminders' : r.id = id)
                      <=> (\E r \in scheduled_reminders : r.id = id))

\* C13: a booking that commits schedules the 24h job only if the appointment
\* time minus 24 hours is strictly later than now, and the 1h job only if the
\* appointment time minus 1 hour is; a reminder whose time has come or passed is
\* omitted and the booking still succeeds.
C13_PastRemindersOmitted ==
    [][(BookStep /\ last'.result.kind = "booked")
         => /\ last'.result.success
            /\ JobIffDue("24h", hours(24))
            /\ JobIffDue("1h", hours(1))]_vars

\* A booking succeeded exactly one hour before the appointment, and no reminder
\* job exists for it.
C13_Witness ==
    /\ last.op = "book" /\ last.result.success
    /\ last.result.datetime - hours(1) = now
    /\ \A j \in jobs : j.args # <<last.phone, last.result.datetime>>


-----------------------------------------------------------------------------
(* C14.  Cancellation.                                                     *)

\* The step is one call of the cancel_appointment tool, described by last'.
CancelStep == now' = now /\ last'.op = "cancel"

\* The places in the store of the appointment the call is to cancel: with an id,
\* the customer's appointment of that id; without, the customer's appointment
\* with the earliest start among those strictly after now.
CancelTargets ==
    LET mine == {i \in DOMAIN Stored : Stored[i].phone = last'.phone}
    IN  IF last'.appointment_id # NoId
        THEN {i \in mine : Stored[i].id = last'.appointment_id}
        ELSE {i \in mine :
                /\ start(Stored[i]) > now
                /\ \A j \in mine : start(Stored[j]) > now
                                      => start(Stored[i]) <= start(Stored[j])}

\* C14: a cancel_appointment call without a target returns success=false and
\* leaves the store unchanged; with a target it removes exactly the target
\* record, leaves every other record as it was, and emits a cancellation
\* notification.
C14_Cancellation ==
    [][CancelStep =>
         IF CancelTargets = {}
         THEN ~last'.result.success /\ StoredAfter = Stored
         ELSE /\ last'.result.success
              /\ \E i \in CancelTargets : StoredAfter = RemoveAt(Stored, i)
              /\ \E m \in sent' :
                    /\ m.kind = "cancelled_appointment"
                    /\ m.customer = last'.phone]_vars


-----------------------------------------------------------------------------
(* C15.  Reschedule is an in-place update.                                 *)

\* The places in the store of the appointment a reschedule call is to move; it
\* is looked up as a cancellation's target is.
RescheduleTargets == CancelTargets

\* C15: a successful reschedule changes only the start of the target record (id,
\* phone, service and recipient stay, the number of records stays, no other
\* record changes); a rejected reschedule leaves the store and the reminder jobs
\* unchanged.
C15_RescheduleInPlace ==
    [][RescheduleStep =>
         IF last'.result.success
         THEN \E i \in RescheduleTargets :
                 StoredAfter =
                    [Stored EXCEPT ![i].datetime =
                                      strftime_datetime(last'.result.datetime)]
         ELSE /\ StoredAfter = Stored
              /\ jobs' = jobs
              /\ scheduled_reminders' = scheduled_reminders]_vars


-----------------------------------------------------------------------------
(* C16.  Reschedule resolves and checks its target time as a booking does. *)

\* What a confirmed booking for the customer themselves, made with the date and
\* time expressions of this step's reschedule call in the state before it, would
\* have answered.
WouldBook ==
    book_appointment(World, last'.phone, last'.new_date, last'.new_time,
                     "haircut", "self", TRUE, "", NoClient).result

\* C16: when the customer has an appointment to move and a confirmed booking for
\* themselves with the same date and time expressions would resolve to t and
\* commit, the reschedule resolves to the same t and succeeds.
C16_RescheduleAsBooking ==
    [][(/\ RescheduleStep
        /\ RescheduleTarget # <<>>
        /\ last'.new_date.kind # "empty"
        /\ WouldBook.success)
          => /\ last'.result.success
             /\ last'.result.datetime = WouldBook.datetime]_vars


-----------------------------------------------------------------------------
(* C17.  Same-day alternatives for a taken slot.                           *)

\* The free slots of a calendar day: the half-hour starts of a working day from
\* opening to closing that are offered at this instant (any of a later day,
\* those more than an hour ahead today) and are 30 minutes or more away from
\* every stored appointment of that day.
FreeSlots(day) ==
    {slot \in Range(slot_grid(day)) :
        /\ weekday(slot) \in 0..5
        /\ day > date(now) \/ slot > now + hours(1)
        /\ \A i \in DOMAIN Stored :
              date(start(Stored[i])) = day
                 => Abs(slot - start(Stored[i])) >= minutes(30)}

OfferedTimes == Range(last'.result.alternatives)

\* C17: when the requested slot is taken and the same day has free slots, the
\* answer offers two of them (one if there is only one), and no free slot of
\* that day is nearer to the requested time, in minutes, than an offered one.
C17_ClosestAlternatives ==
    [][(BookStep /\ last'.result.kind = "slot_booked_alternatives") =>
         LET requested == last'.result.datetime
             free == FreeSlots(date(requested))
             offered == {f \in free : strftime_clock(f) \in OfferedTimes}
         IN  /\ free # {}
             /\ Len(last'.result.alternatives)
                   = (IF Cardinality(free) < 2 THEN Cardinality(free) ELSE 2)
             /\ Cardinality(offered) = Len(last'.result.alternatives)
             /\ \A a \in offered, f \in free \ offered :
                   Abs(a - requested) <= Abs(f - requested)]_vars


-----------------------------------------------------------------------------
(* C18.  A taken slot on a day without free slots.                         *)

\* The first day after `day` that is not a Sunday.
DayAfterSkippingSunday(day) ==
    CHOOSE d \in (day + 1)..(day + 2) :
        /\ d % 7 # 6
        /\ \A e \in (day + 1)..(d - 1) : e % 7 = 6

\* The n earliest of a set of slots, ascending, as "%I:%M %p" strings.
EarliestTimes(slots, n) ==
    [i \in 1..(IF Cardinality(slots) < n THEN Cardinality(slots) ELSE n) |->
        strftime_clock(CHOOSE f \in slots :
                          Cardinality({g \in slots : g < f}) = i - 1)]

\* C18: when the requested slot is not available and its day has no free slot,
\* the answer names the next working day (a Sunday is skipped) and the up to
\* three earliest free times of that day, ascending; when that day has no free
\* slot either, the answer is the generic fully-booked rejection.
C18_NextWorkingDay ==
    [][(/\ BookStep
        /\ last'.result.kind \in SlotUnavailableKinds
        /\ FreeSlots(date(last'.result.datetime)) = {}) =>
         LET day == DayAfterSkippingSunday(date(last'.result.datetime))
         IN  IF FreeSlots(day) = {}
             THEN last'.result.kind = "slot_booked_busy"
             ELSE /\ last'.result.kind = "slot_booked_next_day"
                  /\ last'.result.alt_day = day
                  /\ last'.result.alternatives = EarliestTimes(FreeSlots(day), 3)]_vars

\* A request for a Saturday without free slots was answered with times of the
\* Monday after.
C18_Witness ==
    /\ last.op = "book"
    /\ last.result.kind = "slot_booked_next_day"
    /\ weekday(last.result.datetime) = 5
    /\ last.result.alt_day = date(last.result.datetime) + 2
    /\ Len(last.result.alternatives) = 3


-----------------------------------------------------------------------------
(* C19.  The free slots of a day.                                          *)

\* The days get_available_slots is asked about: the Saturday the service is
\* started on up to the Tuesday after.
SlotDays == 5..8

\* The instant a "%I:%M %p" string names on a calendar day.
ClockOn(day, slot) ==
    datetime(day, (slot.I % 12) + (IF slot.p = "PM" THEN 12 ELSE 0), slot.M)

\* C19: for every day d, get_available_slots(d) is in ascending time order, holds
\* only half-hour starts of d between opening and closing, and holds no slot
\* less than 30 minutes away from the start of an appointment stored for d,
\* on the half-hour grid or off it, whoever it is for.
C19_AvailableSlots ==
    \A d \in SlotDays :
        LET slots == get_available_slots(World, d, "none")
        IN  /\ \A i \in 1..(Len(slots) - 1) :
                  ClockOn(d, slots[i]) < ClockOn(d, slots[i + 1])
            /\ \A i \in DOMAIN slots :
                  /\ date(ClockOn(d, slots[i])) = d
                  /\ hour(ClockOn(d, slots[i])) \in 10..17
                  /\ minute(ClockOn(d, slots[i])) \in {0, 30}
                  /\ \A k \in DOMAIN Stored :
                        date(start(Stored[k])) = d
                           => Abs(ClockOn(d, slots[i]) - start(Stored[k]))
                                 >= minutes(30)

\* An appointment for somebody else at 10:15 on Monday is stored, and Monday's
\* list has slots, but neither 10:00 nor 10:30.
C19_Witness ==
    /\ \E k \in DOMAIN Stored :
          /\ start(Stored[k]) = datetime(7, 10, 15)
          /\ recipient_of(Stored[k]) = "brother"
    /\ get_available_slots(World, 7, "none") # <<>>
    /\ \A i \in DOMAIN get_available_slots(World, 7, "none") :
          ClockOn(7, get_available_slots(World, 7, "none")[i])
              \notin {datetime(7, 10, 0), datetime(7, 10, 30)}


-----------------------------------------------------------------------------
(* C20.  The slot validity rule.                                           *)

\* The starts the rule is asked about: every quarter of an hour from 09:00 to
\* 18:45 on this Monday, Saturday and Sunday.
ProbeTimes ==
    {datetime(d, h, m) : d \in {0, 5, 6}, h \in 9..18, m \in {0, 15, 30, 45}}

\* C20: is_valid_appointment_time(t) is true exactly when t is on a Monday to
\* Saturday, its hour is in [10, 18), its minute is 0 or 30, and t >= now + 1
\* hour; a reschedule whose target time has been resolved is refused as an
\* invalid time exactly when the rule fails for it.
C20_ValidAppointmentTime ==
    /\ [](\A dt \in ProbeTimes : is_valid_appointment_time(dt) = ValidSlotAt(dt, now))
    /\ [][(/\ RescheduleStep
           /\ last'.result.kind \notin {"missing", "not_found", "unparseable"})
             => (last'.result.kind = "invalid_time"
                    <=> ~ValidSlotAt(last'.result.datetime, now))]_vars

\* A reschedule to the start exactly one hour ahead was not refused as an
\* invalid time.
C20_Witness ==
    /\ last.op = "reschedule"
    /\ last.result.datetime = now + hours(1)
    /\ last.result.kind \in {"slot_unavailable", "rescheduled"}


-----------------------------------------------------------------------------
(* C21.  The business-hours step.                                          *)

\* C21: a booking request whose resolved start fails the slot validity rule is
\* answered with the business-hours rejection, and so never with one of the
\* "that time slot is already booked" answers.
C21_BusinessHoursCheck ==
    [][(/\ BookStep
        /\ last'.result.datetime # None
        /\ ~ValidSlotAt(last'.result.datetime, now))
          => last'.result.kind = "business_hours"]_vars


-----------------------------------------------------------------------------
(* C22.  Tool calls end in a result.                                       *)

\* C22: a call of the book_appointment, cancel_appointment or
\* reschedule_appointment tool returns a result, whatever the date and time
\* expressions are; it never ends in a raised exception.
C22_NoRaisedException ==
    last.op \in {"book", "cancel", "reschedule"} => last.result.kind # "raised"


-----------------------------------------------------------------------------
(* C23.  Retries of a failed persistence call.                             *)

\* The step is a booking that got as far as the insert, with the service's
\* answers to the insert recorded.
InsertStep ==
    /\ BookStep
    /\ "attempts" \in DOMAIN last'
    /\ last'.result.kind \in {"booked", "error"}

\* The service fails exactly once during the insert: the first attempt to
\* connect is refused (rate limit or another error) and the request goes
\* through, or the connection is made at once and the request raises.
FailsOnce ==
    \/ /\ last'.attempts[1] # "connected"
       /\ \A i \in 2..max_tries : last'.attempts[i] = "connected"
       /\ last'.request = "ok"
    \/ /\ \A i \in 1..max_tries : last'.attempts[i] = "connected"
       /\ last'.request = "raise"

\* C23: a failed persistence call is tried 5 times before the failure is
\* surfaced (as an error, or as a switch to the in-memory store), and a single
\* failure of the service leads to neither: the booking succeeds and the
\* appointment is in the spreadsheet.
C23_BoundedRetry ==
    [][InsertStep =>
         /\ (~last'.result.success \/ MOCK_DB' # MOCK_DB)
               => (last'.call.attempts_made = max_tries
                     \/ last'.call.requests_made = max_tries)
         /\ FailsOnce
               => /\ last'.result.success
                  /\ MOCK_DB' = MOCK_DB
                  /\ \E i \in DOMAIN SHEET'.appointments :
                        SHEET'.appointments[i].id = last'.result.appointment_id]_vars


-----------------------------------------------------------------------------
(* C24.  Notification failures and the result of the tool.                 *)

\* The step is a tool call made while notifications may fail.
NotifyingStep == now' = now /\ "outcomes" \in DOMAIN last'

\* The result of the same call, on the same state, with every notification
\* going through.
ResultWhenDelivered ==
    CASE last'.op = "book" ->
           book_appointment(World, last'.phone, [kind |-> "tomorrow"],
                            CHOOSE t \in ElevenAM : TRUE, "haircut", last'.recipient,
                            last'.confirmed, "", NoClient).result
      [] last'.op = "cancel" ->
           cancel_appt_service(World, last'.phone, last'.appointment_id,
                               NoClientChange).result
      [] last'.op = "reschedule" ->
           reschedule_appt_service(World, last'.phone, last'.new_date, last'.new_time,
                                   last'.appointment_id, NoClientChange).result

\* C24: whatever becomes of the reminders, the customer's confirmation and the
\* barber's message, a booking that stored its record answers success with
\* the record's id, and the result of a booking, a cancellation and a
\* reschedule is the one the call has when every notification goes through.
C24_NotificationsNeverBlock ==
    [][NotifyingStep =>
         /\ last'.result = ResultWhenDelivered
         /\ (last'.op = "book" /\ Len(StoredAfter) > Len(Stored))
               => /\ last'.result.success
                  /\ last'.result.appointment_id = StoredAfter[Len(StoredAfter)].id]_vars

\* A booking answered success although none of its notifications went
\* through: no message was sent and no reminder was scheduled for it.
C24_Witness ==
    /\ last.op = "book"
    /\ "outcomes" \in DOMAIN last
    /\ last.outcomes = [reminders |-> FALSE, confirmation |-> FALSE, barber |-> FALSE]
    /\ last.result.success
    /\ \E i \in DOMAIN Stored : Stored[i].id = last.result.appointment_id
    /\ sent = {}
    /\ jobs = {}

-----------------------------------------------------------------------------
(* C25.  Appointment ids.                                                  *)

\* C25: no two stored appointments have the same id.
C25_UniqueAppointmentIds ==
    \A i, j \in DOMAIN Stored : i # j => Stored[i].id # Stored[j].id

-----------------------------------------------------------------------------
(* C26 - C30.  Date resolution.                                            *)

\* The step is a call of one of the three tools that resolve a date text.
DateStep ==
    /\ now' = now
    /\ last'.op \in {"calculate_date", "check_availability", "book"}
    /\ "text" \in DOMAIN last'

\* The calendar day the call resolved its text to: the date calculate_date
\* returns, the date check_availability answers for, the day of the datetime
\* book_appointment went on with.
ResolvedDay ==
    CASE last'.op = "calculate_date" -> last'.result
      [] last'.op = "check_availability" -> last'.result.date
      [] last'.op = "book" -> date(last'.result.datetime)

\* What the same tool returns, on the same state, for the text "tomorrow".
ResultForTomorrow ==
    CASE last'.op = "calculate_date" -> calculate_date(Text_tomorrow)
      [] last'.op = "check_availability" ->
           check_availability_tool(World, Text_tomorrow, "none")
      [] last'.op = "book" ->
           book_appointment(World, last'.phone, [kind |-> "text", text |-> Text_tomorrow],
                            CHOOSE t \in ThreePM : TRUE, "haircut", last'.recipient,
                            last'.confirmed, "", NoClient).result

\* C26: a text that matches no date rule, or whose number cannot be read,
\* resolves to the day after today, and what the tool returns tells the
\* caller so: it differs from what the tool returns for "tomorrow".
C26_FallbackIsFlagged ==
    [][(DateStep /\ last'.text \in OtherTexts) =>
          /\ ResolvedDay = date(now) + 1
          /\ last'.result # ResultForTomorrow]_vars

\* The first day on or after `day` whose weekday is w: 0 to 6 days later.
OnOrAfter(day, w) == day + ((w - (day % 7)) % 7)

\* C27: calculate_date("<weekday> in <N> days") is the first day with that
\* weekday on or after the day N days from today.
C27_WeekdayInDays ==
    [][(DateStep /\ last'.op = "calculate_date") =>
          \A i \in 1..7, n \in 0..7 :
              last'.text = WeekdayInDaysText(i, n)
                  => last'.result = OnOrAfter(date(now) + n, i - 1)]_vars

\* C28: "next <weekday>" given to calculate_date, check_availability or
\* book_appointment resolves to a day with that weekday, one to seven days
\* after today: seven when today is that weekday.
C28_NextWeekday ==
    [][DateStep =>
          \A i \in 1..7 :
              last'.text = Text_next_ \o day_names[i]
                  => /\ ResolvedDay % 7 = i - 1
                     /\ ResolvedDay - date(now) \in 1..7
                     /\ weekday(now) = i - 1 => ResolvedDay = date(now) + 7]_vars

\* On a Monday a customer booked "next monday" at 3pm and has the appointment
\* a week later.
C28_Witness ==
    /\ last.op = "book"
    /\ "text" \in DOMAIN last
    /\ last.text = Text_next_ \o day_names[1]
    /\ weekday(now) = 0
    /\ last.result.success
    /\ date(last.result.datetime) = date(now) + 7
    /\ \E k \in DOMAIN Stored : Stored[k].id = last.result.appointment_id

\* The kinds of date expression the documentation of book_appointment lists.
DocumentedTexts ==
    IsoTexts \cup DayWordTexts \cup NextWeekdayTexts \cup InDaysTexts \cup WeekdayInDaysTexts

\* C29: book_appointment books a documented date expression on the date
\* calculate_date gives for it; "in 3 days" is booked three days from today.
C29_BookingDateAsCalculated ==
    [][(DateStep /\ last'.op = "book" /\ last'.text \in DocumentedTexts) =>
          /\ date(last'.result.datetime) = calculate_date(last'.text)
          /\ last'.text = InDaysText(3) => date(last'.result.datetime) = date(now) + 3]_vars

\* C30: no tool resolves a date text to a day of a year later than next
\* year, and no stored appointment starts in such a year.
C30_YearWithinNext ==
    /\ [][DateStep => year(days(ResolvedDay)) <= year(now) + 1]_vars
    /\ [](\A i \in DOMAIN Stored : year(start(Stored[i])) <= year(now) + 1)

-----------------------------------------------------------------------------
(* C31.                                                                    *)

\* The hour a clock request stands for: 0 for 12 am, 12 for 12 pm, the hour
\* plus 12 for another pm hour, the hour itself for another am hour.
HourAsked(r) ==
    IF r.ampm = Text_am /\ r.hour = 12 THEN 0
    ELSE IF r.ampm = Text_pm /\ r.hour < 12 THEN r.hour + 12
    ELSE r.hour

\* The book_appointment tool was called with a time text, parse_datetime with a
\* text.
BookedAtTime(time_text) ==
    last'.op = "book" /\ "time" \in DOMAIN last' /\ last'.time = time_text

ParsedText(datetime_str) ==
    last'.op = "parse_datetime" /\ last'.text = datetime_str

\* The datetime has this hour and minute and no seconds.
AtClock(dt, h, m) == dt # None /\ hour(dt) = h /\ minute(dt) = m /\ second(dt) = 0

\* C31: the book_appointment tool and parse_datetime read "12am" and "12:MMam"
\* as hour 0, "12pm" as hour 12 and "Hpm" with H below 12 as H + 12; a time
\* that cannot be read gives 12:00; the datetime they resolve to has zero
\* seconds.
C31_TimeParsing ==
    [][/\ \A r \in ClockRequests :
             /\ BookedAtTime(r.text)
                    => AtClock(last'.result.datetime, HourAsked(r), r.minute)
             /\ \A p \in DatePrefixes :
                    ParsedText(p \o r.text) => AtClock(last'.result, HourAsked(r), r.minute)
       /\ \A t \in UnreadableTimes :
             /\ BookedAtTime(t) => AtClock(last'.result.datetime, 12, 0)
             /\ \A p \in DatePrefixes \ {<<>>} :
                    ParsedText(p \o t) => AtClock(last'.result, 12, 0)
       /\ (last'.op = "book" /\ "time" \in DOMAIN last' /\ last'.result.datetime # None)
              => second(last'.result.datetime) = 0
       /\ (last'.op = "parse_datetime" /\ last'.result # None)
              => second(last'.result) = 0]_vars

-----------------------------------------------------------------------------
(* C32.                                                                    *)

\* The next occurrence of weekday w (0 = Monday): today where today is w and
\* the shop has not closed, else the first w after today.
NextOccurrence(w) ==
    IF weekday(now) = w /\ hour(now) < CLOSING_HOUR THEN date(now)
    ELSE date(now) + 1 + ((w - weekday(now) - 1) % 7)

\* The day calculate_date returned, the day of the datetime parse_datetime
\* returned.
DayResolved ==
    IF last'.op = "calculate_date" THEN last'.result ELSE date(last'.result)

\* C32: a weekday name alone resolves, in calculate_date and in parse_datetime,
\* to the next occurrence of that weekday: today only where today is that
\* weekday and the hour is before closing, else the first such day after today.
C32_BareWeekday ==
    [][(now' = now /\ last'.op \in {"calculate_date", "parse_datetime"}) =>
          \A i \in 1..7 :
              last'.text = day_names[i]
                  => /\ last'.result # None
                     /\ DayResolved = NextOccurrence(i - 1)
                     /\ DayResolved % 7 = i - 1]_vars

-----------------------------------------------------------------------------
(* C33.                                                                    *)

\* The step is one call of the service's book_appointment with a text.
NaturalStep == now' = now /\ last'.op = "book_natural"

\* The self booking at `dt` would find its slot unavailable in the state
\* before the call.
Unavailable(dt) ==
    lower(last'.recipient) = "self" /\ ~is_slot_available(World, dt, "none")

\* The first check that fails for the call, in the order unparseable, outside
\* business hours, in the past, needs confirmation, slot unavailable; "none"
\* where all pass.
FirstFailing(dt) ==
    IF dt = None THEN "unparseable"
    ELSE IF ~(hour(dt) >= OPENING_HOUR /\ hour(dt) < CLOSING_HOUR) THEN "business_hours"
    ELSE IF dt < now THEN "past"
    ELSE IF ~last'.confirmed THEN "needs_confirmation"
    ELSE IF Unavailable(dt) THEN "slot_unavailable"
    ELSE "none"

KindReturned ==
    IF last'.result.kind \in SlotUnavailableKinds THEN "slot_unavailable"
    ELSE last'.result.kind

\* C33: book_appointment makes its checks in the order unparseable, outside
\* business hours, in the past, needs confirmation, slot unavailable, and the
\* first that fails gives the answer; an unconfirmed request for a taken slot
\* is asked to confirm; every call ends booked (success) or rejected (no
\* success, nothing stored), never both.
C33_CheckOrder ==
    [][NaturalStep =>
          /\ FirstFailing(parse_datetime(last'.text)) # "none"
                 => /\ KindReturned = FirstFailing(parse_datetime(last'.text))
                    /\ ~last'.result.success
                    /\ StoredAfter = Stored
          /\ FirstFailing(parse_datetime(last'.text)) = "none"
                 => /\ last'.result.kind = "booked"
                    /\ last'.result.success
                    /\ Len(StoredAfter) = Len(Stored) + 1
          /\ last'.result.success <=> last'.result.kind = "booked"]_vars

\* An unconfirmed self booking for tomorrow 11:00, a slot the mock data holds,
\* was asked to confirm.
C33_Witness ==
    /\ last.op = "book_natural"
    /\ last.text = <<"t", "o", "m", "o", "r", "r", "o", "w", " ", "a", "t", " ", "1", "1", "a", "m">>
    /\ last.recipient = "self"
    /\ ~last.confirmed
    /\ last.result.kind = "needs_confirmation"
    /\ \E k \in DOMAIN Stored : start(Stored[k]) = datetime(date(now) + 1, 11, 0)

-----------------------------------------------------------------------------
(* C34.                                                                    *)

\* How often a record occurs among the stored appointments.
Occurrences(stored, record) == Cardinality({i \in DOMAIN stored : stored[i] = record})

\* The appointments the store holds after the step beyond those it held
\* before: the k-th stored appointment counts where it is a further occurrence
\* of its record.
AddedRecords ==
    {k \in DOMAIN StoredAfter :
        Occurrences(SubSeq(StoredAfter, 1, k), StoredAfter[k]) > Occurrences(Stored, StoredAfter[k])}

\* C34: book_appointment returns success exactly when one new appointment was
\* added to the store during the call, and whether it succeeds or not every
\* appointment the store held before the call is still there unchanged,
\* whatever header row the worksheet has.
C34_InsertPreservesRecords ==
    [][(BookStep /\ "env" \in DOMAIN last') =>
          /\ last'.result.success <=> Cardinality(AddedRecords) = 1
          /\ \A i \in DOMAIN Stored :
                Occurrences(StoredAfter, Stored[i]) >= Occurrences(Stored, Stored[i])]_vars

-----------------------------------------------------------------------------
(* C35.                                                                    *)

\* The stored appointments book_appointment added (and returned success for):
\* their ids are "APPT-<timestamp>", unlike the mock data's.
BookedEarlier == {i \in DOMAIN Stored : Len(Stored[i].id) = 2}

\* C35: an appointment book_appointment has returned success for is returned
\* by every later get_appointments_for_date for its date, and every later
\* self booking at its time is rejected, whatever get_sheet_client meets on
\* each store call.
C35_ReadYourWrites ==
    [][/\ (now' = now /\ last'.op = "get_appointments_for_date") =>
             \A i \in BookedEarlier :
                 date(start(Stored[i])) = last'.date
                     => \E k \in DOMAIN last'.result : last'.result[k] = Stored[i]
       /\ (BookStep /\ "reading" \in DOMAIN last' /\ lower(last'.recipient) = "self") =>
             \A i \in BookedEarlier :
                 start(Stored[i]) = last'.result.datetime => ~last'.result.success]_vars


-----------------------------------------------------------------------------
(* C36.  Reminder jobs follow the store.                                   *)

\* The scheduled job is for an appointment the store holds: same customer
\* handle, same start time.
JobHasAppointment(job) ==
    \E i \in DOMAIN Stored :
       /\ Stored[i].phone = job.args[1]
       /\ start(Stored[i]) = job.args[2]

\* A cancel_appointment call that reported success.
CancelSucceeded == CancelStep /\ last'.result.success

\* C36: in every reachable state each scheduled reminder job corresponds to an
\* appointment (same customer handle and start time) that is currently in the
\* store, and after a successful cancel_appointment no reminder job remains
\* for the cancelled appointment.
C36_RemindersFollowStore ==
    /\ [](\A job \in jobs : JobHasAppointment(job))
    /\ [][CancelSucceeded =>
            \A i \in CancelTargets :
               \A job \in jobs' :
                  ~(/\ job.args[1] = Stored[i].phone
                    /\ job.args[2] = start(Stored[i]))]_vars


-----------------------------------------------------------------------------
(* C37.  Customers act on their own appointments only.                     *)

\* The stored appointments of customers other than the caller, in store order.
OthersOf(stored, phone) == SelectSeq(stored, LAMBDA appt : appt.phone # phone)

\* C37: cancel_appointment(phone, id) and reschedule_appointment(phone, ..., id)
\* never remove or modify a stored appointment whose customer handle differs
\* from phone, including when the id given belongs to another customer's
\* appointment.
C37_OwnAppointmentsOnly ==
    [][CancelStep \/ RescheduleStep =>
          OthersOf(StoredAfter, last'.phone) = OthersOf(Stored, last'.phone)]_vars


-----------------------------------------------------------------------------
(* The customer directory: records are saved with any of their fields,     *)
(* read back, and customers book and cancel meanwhile.                     *)

\* The dicts handed to save_customer_info: any of name, email, preferences.
NameFields == {EmptyDict} \cup {[name |-> n] : n \in {"Al"}}
EmailFields == {EmptyDict, [email |-> "al@example.com"]}
PreferenceFields == {EmptyDict, [preferences |-> [style |-> "fade"]]}
Merged(d, e) == [k \in DOMAIN d \cup DOMAIN e |-> IF k \in DOMAIN d THEN d[k] ELSE e[k]]
CustomerInfos == {Merged(n, Merged(e, p)) : n \in NameFields, e \in EmailFields, p \in PreferenceFields}

\* The customer whose record is followed.
Customers == {"+tg42"}

\* With credentials the Customers worksheet is used, without them MOCK_DB.
Backends == {"client", "none"}

SaveCustomerInfo ==
    /\ \E p \in Customers, customer_info \in CustomerInfos, cl \in Backends :
          LET after == save_customer_info(World, p, customer_info, cl)
          IN  /\ Commit(after, MaxStoreTwo)
              /\ last' = [op |-> "save_customer_info", phone |-> p,
                          customer_info |-> customer_info, client |-> cl]
    /\ UNCHANGED <<now, asked, threads, sheets_rate_limiter, let_through, CONVERSATION_MEMORY_CACHE>>

GetCustomerInfo ==
    /\ \E p \in Customers, cl \in Backends :
          last' = [op |-> "get_customer_info", phone |-> p, client |-> cl,
                   result |-> get_customer_info(World, p, cl)]
    /\ UNCHANGED <<now, MOCK_DB, SHEET, jobs, scheduled_reminders, sent, asked, threads, sheets_rate_limiter, let_through, CONVERSATION_MEMORY_CACHE>>

\* Bookings, some with the customer's name.
BookKnown ==
    /\ BookAny(Customers, Today, ElevenAM, {"self"}, {"", "Al"}, {NoClient}, MaxStoreTwo)
    /\ UNCHANGED asked

CancelKnown ==
    /\ \E p \in Customers, env \in {NoClientChange} :
          CancelAppointment(p, NoId, env, MaxStoreTwo)
    /\ UNCHANGED asked

MoveKnown ==
    /\ \E p \in Customers :
          RescheduleAppointment(p, [kind |-> "tomorrow"], [hour |-> 3, minute |-> 0, colon |-> FALSE, ampm |-> "pm"], NoId, NoClientChange, MaxStoreTwo)
    /\ UNCHANGED asked

NextCustomers == SaveCustomerInfo \/ GetCustomerInfo \/ BookKnown \/ CancelKnown \/ MoveKnown \/ Tick

SpecCustomers == Init /\ [][NextCustomers]_vars

-----------------------------------------------------------------------------
(* RateLimiter.wait_if_needed, one step per statement that takes, uses or  *)
(* gives up the lock; threads enter it through the rate_limited wrapper.   *)

\* timedelta(minutes=1), in seconds.
Minute == 60

\* The latest, past the start, that a call begins.
LatestCall == Minute + 1

\* The instants at which threads get to run, besides the ends of their sleeps.
LimiterInstants == {StartTime + k : k \in {1, Minute - 1, Minute, LatestCall}}

Move(th, position) == threads' = [threads EXCEPT ![th] = position]

LimiterFrame == UNCHANGED <<MOCK_DB, SHEET, jobs, scheduled_reminders, sent, last, asked, CONVERSATION_MEMORY_CACHE>>

\* [t for t in self.calls if now - t < timedelta(minutes=1)]
recent(calls, at) == SelectSeq(calls, LAMBDA t : at - t < Minute)

\* max(a, b)
max(a, b) == IF a >= b THEN a ELSE b

\* rate_limited: the wrapper calls sheets_rate_limiter.wait_if_needed().
Call(th) ==
    /\ threads[th].pc = "idle"
    /\ now <= StartTime + LatestCall
    /\ Move(th, [pc |-> "acquire"])
    /\ UNCHANGED <<now, sheets_rate_limiter, let_through>>
    /\ LimiterFrame

\* `with self.lock` blocks until the lock is free and takes it.
Acquire(th) ==
    /\ threads[th].pc = "acquire"
    /\ sheets_rate_limiter.lock = Unlocked
    /\ sheets_rate_limiter' = [sheets_rate_limiter EXCEPT !.lock = th]
    /\ Move(th, [pc |-> "check"])
    /\ UNCHANGED <<now, let_through>>
    /\ LimiterFrame

\* now = get_current_datetime(); the calls older than a minute are dropped; at
\* the limit the time to sleep is worked out from the oldest call kept, with a
\* jitter of less than a second on top, which on a clock of whole seconds ends
\* the sleep in the same second or in the next.
CheckLimit(th) ==
    /\ threads[th].pc = "check"
    /\ LET calls == recent(sheets_rate_limiter.calls, now)
       IN  /\ sheets_rate_limiter' = [sheets_rate_limiter EXCEPT !.calls = calls]
           /\ IF Len(calls) >= sheets_rate_limiter.max_calls
              THEN LET oldest_call == calls[1]
                       sleep_seconds == Minute - (now - oldest_call)
                   IN  \E jitter \in {0, 1} :
                          IF max(0, sleep_seconds) + jitter > 0
                          THEN Move(th, [pc |-> "release", now |-> now,
                                         until |-> now + max(0, sleep_seconds) + jitter])
                          ELSE Move(th, [pc |-> "append", now |-> now])
              ELSE Move(th, [pc |-> "append", now |-> now])
    /\ UNCHANGED <<now, let_through>>
    /\ LimiterFrame

\* self.lock.release() before sleeping.
ReleaseToSleep(th) ==
    /\ threads[th].pc = "release"
    /\ sheets_rate_limiter' = [sheets_rate_limiter EXCEPT !.lock = Unlocked]
    /\ Move(th, [threads[th] EXCEPT !.pc = "sleep"])
    /\ UNCHANGED <<now, let_through>>
    /\ LimiterFrame

\* sleep_time.sleep(sleep_seconds) returns once that long has passed.
Wake(th) ==
    /\ threads[th].pc = "sleep"
    /\ now >= threads[th].until
    /\ Move(th, [pc |-> "reacquire", now |-> threads[th].now])
    /\ UNCHANGED <<now, sheets_rate_limiter, let_through>>
    /\ LimiterFrame

\* finally: self.lock.acquire()
Reacquire(th) ==
    /\ threads[th].pc = "reacquire"
    /\ sheets_rate_limiter.lock = Unlocked
    /\ sheets_rate_limiter' = [sheets_rate_limiter EXCEPT !.lock = th]
    /\ Move(th, [pc |-> "append", now |-> threads[th].now])
    /\ UNCHANGED <<now, let_through>>
    /\ LimiterFrame

\* self.calls.append(now), with the now read before any sleep.
AppendCall(th) ==
    /\ threads[th].pc = "append"
    /\ sheets_rate_limiter' = [sheets_rate_limiter EXCEPT !.calls = Append(@, threads[th].now)]
    /\ Move(th, [pc |-> "exit"])
    /\ UNCHANGED <<now, let_through>>
    /\ LimiterFrame

\* The with block ends: the lock is released and wait_if_needed returns; the
\* wrapped function is let through.
Return(th) ==
    /\ threads[th].pc = "exit"
    /\ sheets_rate_limiter' = [sheets_rate_limiter EXCEPT !.lock = Unlocked]
    /\ Move(th, Idle)
    /\ let_through' = Append(recent(let_through, now), now)
    /\ UNCHANGED now
    /\ LimiterFrame

\* Time passes, up to the next instant or to the end of some thread's sleep.
PassTime ==
    /\ \E t \in LimiterInstants \cup {threads[th].until : th \in {x \in Threads : threads[x].pc = "sleep"}} :
          /\ t > now
          /\ now' = t
          /\ let_through' = recent(let_through, t)
    /\ UNCHANGED <<threads, sheets_rate_limiter>>
    /\ LimiterFrame

Step(th) ==
    \/ Call(th)
    \/ Acquire(th)
    \/ CheckLimit(th)
    \/ ReleaseToSleep(th)
    \/ Wake(th)
    \/ Reacquire(th)
    \/ AppendCall(th)
    \/ Return(th)

NextLimiter == PassTime \/ \E th \in Threads : Step(th)

SpecLimiter == Init /\ [][NextLimiter]_vars

\* Every thread gets to run, the clock moves on, and a thread waiting for the
\* lock gets it when it is free again and again.
FairLimiter ==
    /\ WF_vars(PassTime)
    /\ \A th \in Threads :
          /\ WF_vars(CheckLimit(th) \/ ReleaseToSleep(th) \/ Wake(th) \/ AppendCall(th) \/ Return(th))
          /\ SF_vars(Reacquire(th))
          /\ SF_vars(Acquire(th))

SpecLimiterFair == SpecLimiter /\ FairLimiter


-----------------------------------------------------------------------------
(* C38.  The rate limiter under concurrency.                               *)

\* The positions of wait_if_needed at which the thread's next statement reads
\* or writes self.calls.
TouchesCalls(th) == threads[th].pc \in {"check", "append"}

\* The thread is inside a wait_if_needed call.
Waiting(th) == threads[th].pc # "idle"

\* C38: for any number of threads calling wait_if_needed, at most max_calls
\* calls are let through in any 60-second window, the list of recorded calls is
\* only read and written while the lock is held, every call eventually
\* returns, and the lock is free after every return.
C38_RateLimiterBound ==
    /\ [](Len(recent(let_through, now)) <= sheets_rate_limiter.max_calls)
    /\ [](\A th \in Threads : TouchesCalls(th) => sheets_rate_limiter.lock = th)
    /\ \A th \in Threads : Waiting(th) ~> ~Waiting(th)
    /\ [][\A th \in Threads :
            Waiting(th) /\ ~Waiting(th)' => sheets_rate_limiter'.lock = Unlocked]_vars


-----------------------------------------------------------------------------
(* C39.  Customer upsert with partial fields.                              *)

SaveStep == last'.op = "save_customer_info" /\ last' # last

\* What get_customer_info returns for the customer of the call, on the backend
\* of the call, before the step and after it.
InfoBefore == get_customer_info(World, last'.phone, last'.client)
InfoAfter ==
    get_customer_info([MOCK_DB |-> MOCK_DB', SHEET |-> SHEET', jobs |-> jobs',
                       scheduled_reminders |-> scheduled_reminders', sent |-> sent'],
                      last'.phone, last'.client)

\* The fields of a customer record other than its key and its time stamp.
InfoFields == {"name", "email", "preferences"}

\* The field is stored with a value: present, and not the empty cell.
Filled(info, field) == field \in DOMAIN info /\ info[field] # IF field = "preferences" THEN EmptyDict ELSE ""

\* C39: save_customer_info(handle, fields) sets the supplied fields and the
\* last-updated time and leaves the customer's other stored fields (email,
\* preferences) unchanged; no customer record is ever deleted by a booking,
\* cancel or reschedule operation; a later get_customer_info(handle) returns
\* the name last supplied.
C39_CustomerUpsert ==
    /\ [][SaveStep =>
            /\ \A f \in DOMAIN last'.customer_info : InfoAfter[f] = last'.customer_info[f]
            /\ InfoAfter.last_updated = now
            /\ \A f \in InfoFields \ DOMAIN last'.customer_info :
                  Filled(InfoBefore, f) => f \in DOMAIN InfoAfter /\ InfoAfter[f] = InfoBefore[f]]_vars
    /\ [][last'.op \in {"book", "cancel", "reschedule"} =>
            /\ DOMAIN MOCK_DB.customers \subseteq DOMAIN MOCK_DB'.customers
            /\ DOMAIN SHEET.customers \subseteq DOMAIN SHEET'.customers]_vars


-----------------------------------------------------------------------------
(* process_incoming_message and the conversation memories it keeps per     *)
(* customer handle.                                                        *)

\* The most exchanges a conversation runs to.
MaxExchanges == 2

\* ConversationBufferMemory(...): a new memory object, told apart from every
\* other by the order of its creation, holding no message.
ConversationBufferMemory(cache) == [id |-> Cardinality(DOMAIN cache) + 1, messages |-> <<>>]

\* Every message gets a memory of its own, whatever the cache holds.
memory_cache_always_new(cache, sender_phone) ==
    SetItem(cache, sender_phone,
            [id |-> Cardinality(DOMAIN cache) + 1 +
                    (IF sender_phone \in DOMAIN cache THEN cache[sender_phone].id ELSE 0),
             messages |-> <<>>])

\* The cache once the memory of the sender is there: created when the sender
\* is not in the cache, left as it is otherwise.
memory_cache(cache, sender_phone) ==
    IF sender_phone \notin DOMAIN cache
    THEN SetItem(cache, sender_phone, ConversationBufferMemory(cache))
    ELSE cache

\* The executor saves the exchange in its memory when the agent has answered.
save_context(memory, input, output) ==
    [memory EXCEPT !.messages = @ \o <<[type |-> "human", content |-> input],
                                        [type |-> "ai", content |-> output]>>]

\* What the customers write, and how a run of the agent ends: with an answer,
\* with an answer after a booking through the book_appointment tool, or with an
\* exception.
MessageTexts == {"yes"}
AgentRuns == {"answers", "books", "raises"}

\* process_incoming_message(sender_phone, message_text)
ProcessIncomingMessage ==
    /\ \E sender_phone \in Phones, message_text \in MessageTexts, run \in AgentRuns :
          LET cache == memory_cache(CONVERSATION_MEMORY_CACHE, sender_phone)
              memory == cache[sender_phone]
              r == IF run = "books"
                   THEN book_appointment(World, sender_phone, [kind |-> "today"],
                                         [hour |-> 11, minute |-> 0, colon |-> TRUE, ampm |-> "am"],
                                         "haircut", "self", TRUE, "", NoClient)
                   ELSE [w |-> World, result |-> [kind |-> "none"]]
              answered == save_context(memory, message_text, r.result.kind)
          IN  /\ run # "raises" => Len(answered.messages) <= 2 * MaxExchanges
              /\ Commit(r.w, MaxStoreTwo)
              /\ CONVERSATION_MEMORY_CACHE' =
                    IF run = "raises" THEN cache ELSE SetItem(cache, sender_phone, answered)
              /\ last' = [op |-> "process_incoming_message", phone |-> sender_phone,
                          text |-> message_text, run |-> run]
    /\ UNCHANGED <<now, asked, threads, sheets_rate_limiter, let_through>>

NextSessions == ProcessIncomingMessage

SpecSessions == Init /\ [][NextSessions]_vars


-----------------------------------------------------------------------------
(* C40.  The session store.                                                *)

IsPrefix(p, q) == Len(p) <= Len(q) /\ SubSeq(q, 1, Len(p)) = p

MessageStep == last'.op = "process_incoming_message"

\* C40: process_incoming_message creates a conversation memory for a customer
\* handle only when none exists, reuses the same memory for every later message
\* from that handle, never removes an entry (the set of keys only grows), and
\* processing a message from one handle never changes the memory stored for
\* another handle.
C40_SessionStore ==
    [][MessageStep =>
         /\ DOMAIN CONVERSATION_MEMORY_CACHE \subseteq DOMAIN CONVERSATION_MEMORY_CACHE'
         /\ DOMAIN CONVERSATION_MEMORY_CACHE' \subseteq DOMAIN CONVERSATION_MEMORY_CACHE \cup {last'.phone}
         /\ \A h \in DOMAIN CONVERSATION_MEMORY_CACHE' \ DOMAIN CONVERSATION_MEMORY_CACHE :
               \A g \in DOMAIN CONVERSATION_MEMORY_CACHE :
                  CONVERSATION_MEMORY_CACHE'[h].id # CONVERSATION_MEMORY_CACHE[g].id
         /\ \A h \in DOMAIN CONVERSATION_MEMORY_CACHE :
               /\ CONVERSATION_MEMORY_CACHE'[h].id = CONVERSATION_MEMORY_CACHE[h].id
               /\ IsPrefix(CONVERSATION_MEMORY_CACHE[h].messages, CONVERSATION_MEMORY_CACHE'[h].messages)
               /\ h # last'.phone => CONVERSATION_MEMORY_CACHE'[h] = CONVERSATION_MEMORY_CACHE[h]]_vars

\* Both customers have a memory, and one has been reused for a second message.
C40_Witness ==
    /\ last.op = "process_incoming_message"
    /\ DOMAIN CONVERSATION_MEMORY_CACHE = Phones
    /\ Len(CONVERSATION_MEMORY_CACHE[last.phone].messages) = 2 * MaxExchanges

====
